---- MODULE Spec2Model ----
(***************************************************************************)
(* Model of the rate-limited external-call subsystem of portfolio-market.  *)
(* This part covers app/external_api/services/rate_limiter.py: several     *)
(* worker processes, each with its own RateLimiter object for the same     *)
(* service, run acquire() against one shared Redis.  A step of a process   *)
(* is one Redis command (GET, DEL, SET, the MULTI/EXEC pipeline) together  *)
(* with the local computation that follows it up to the next command, so   *)
(* the commands of different processes interleave as they do on the        *)
(* server.                                                                 *)
(*                                                                         *)
(* A datetime is the number of seconds since 2024-11-01T00:00:00 (naive    *)
(* UTC); the calendar fields are computed from it.                         *)
(***************************************************************************)
EXTENDS Integers, Sequences, FiniteSets, TLC

----------------------------------------------------------------------------
(* Bounds *)

NumProcs == 2      \* worker processes
MaxWork == 4       \* n workers start at most MaxWork \div n calls
NumTimes == 4      \* instants of the clock
MaxSeconds == 3    \* seconds the clock runs where it runs second by second
MaxLockTicks == 2  \* steps of the clock in a run of the lock
MaxIds == 3        \* ids in a list passed to the price client

Procs == 1..NumProcs

----------------------------------------------------------------------------
(* Calendar: datetime arithmetic as the standard library does it *)

SecondsPerMinute == 60
SecondsPerHour == 3600
SecondsPerDay == 86400

\* The months the model's clock can be in, from 2024-11 on.
EraMonths ==
  << [year |-> 2024, month |-> 11, days |-> 30],
     [year |-> 2024, month |-> 12, days |-> 31],
     [year |-> 2025, month |-> 1,  days |-> 31],
     [year |-> 2025, month |-> 2,  days |-> 28],
     [year |-> 2025, month |-> 3,  days |-> 31] >>

RECURSIVE DaysBefore(_)
DaysBefore(k) == IF k <= 1 THEN 0 ELSE DaysBefore(k - 1) + EraMonths[k - 1].days

\* The first instant of each month of the era
MonthStarts == [k \in 1..Len(EraMonths) |-> DaysBefore(k) * SecondsPerDay]

MonthStart(k) == MonthStarts[k]

MonthIdx(t) ==
  CHOOSE k \in 1..Len(EraMonths) :
    /\ MonthStart(k) <= t
    /\ t < MonthStart(k) + EraMonths[k].days * SecondsPerDay

Year(t) == EraMonths[MonthIdx(t)].year
Month(t) == EraMonths[MonthIdx(t)].month
Day(t) == ((t - MonthStart(MonthIdx(t))) \div SecondsPerDay) + 1
Hour(t) == (t % SecondsPerDay) \div SecondsPerHour
Minute(t) == (t % SecondsPerHour) \div SecondsPerMinute
Second(t) == t % SecondsPerMinute

\* datetime(year, month, day, hour, minute, second)
DateTime(y, m, d, H, M, S) ==
  LET k == CHOOSE j \in 1..Len(EraMonths) :
             EraMonths[j].year = y /\ EraMonths[j].month = m
  IN MonthStart(k) + (d - 1) * SecondsPerDay + H * SecondsPerHour
       + M * SecondsPerMinute + S

\* datetime.isoformat(): the text 'YYYY-MM-DDTHH:MM:SS', kept as its fields
isoformat(t) == << Year(t), Month(t), Day(t), Hour(t), Minute(t), Second(t) >>

\* datetime.fromisoformat()
fromisoformat(s) == DateTime(s[1], s[2], s[3], s[4], s[5], s[6])

\* JSON null / Python None for a reset time string
None == << >>

\* Python None for a datetime column
NoDate == -1

----------------------------------------------------------------------------
(* The clock: the instants at which something can happen *)

TimeTable ==
  << DateTime(2024, 12, 1, 23, 58, 50),
     DateTime(2024, 12, 1, 23, 59, 10),
     DateTime(2024, 12, 31, 23, 59, 30),
     DateTime(2025, 1, 1, 0, 0, 10),
     DateTime(2025, 1, 1, 0, 1, 20),
     DateTime(2025, 1, 1, 2, 0, 0) >>

Times == { TimeTable[k] : k \in 1..NumTimes }

----------------------------------------------------------------------------
(* RateLimiter: pure parts *)

Periods == << "minute", "hour", "day", "month" >>
PeriodSet == { "minute", "hour", "day", "month" }

_get_ttl(period) ==
  CASE period = "minute" -> 60
    [] period = "hour" -> 3600
    [] period = "day" -> 86400
    [] period = "month" -> 2592000
    [] OTHER -> 60

\* _get_next_reset with an hour branch that leaves the minute in place
next_reset_keeps_minute(period, t) ==
  CASE period = "minute" ->
         DateTime(Year(t), Month(t), Day(t), Hour(t), Minute(t), 0) + SecondsPerMinute
    [] period = "hour" ->
         DateTime(Year(t), Month(t), Day(t), Hour(t), Minute(t), 0) + SecondsPerHour
    [] period = "day" ->
         DateTime(Year(t), Month(t), Day(t), 0, 0, 0) + SecondsPerDay
    [] period = "month" ->
         IF Month(t) = 12
         THEN DateTime(Year(t) + 1, 1, 1, 0, 0, 0)
         ELSE DateTime(Year(t), Month(t) + 1, 1, 0, 0, 0)
    [] OTHER -> t + 60

_get_next_reset(period, t) ==
  CASE period = "minute" ->
         DateTime(Year(t), Month(t), Day(t), Hour(t), Minute(t), 0) + SecondsPerMinute
    [] period = "hour" ->
         DateTime(Year(t), Month(t), Day(t), Hour(t), 0, 0) + SecondsPerHour
    [] period = "day" ->
         DateTime(Year(t), Month(t), Day(t), 0, 0, 0) + SecondsPerDay
    [] period = "month" ->
         IF Month(t) = 12
         THEN DateTime(Year(t) + 1, 1, 1, 0, 0, 0)
         ELSE DateTime(Year(t), Month(t) + 1, 1, 0, 0, 0)
    [] OTHER -> t + 60

\* if now >= next_reset
ResetDue(nw, next_reset) == nw >= next_reset

\* RolloverPeriod without the update of the reset time in the configuration
RolloverKeepsResetTime(cfg, period, nw) ==
  LET reset_time_str == cfg.reset_times[period] IN
  IF reset_time_str = None
  THEN [due |-> FALSE, cfg |-> cfg]
  ELSE LET last_reset == fromisoformat(reset_time_str)
           next_reset == _get_next_reset(period, last_reset)
       IN [due |-> ResetDue(nw, next_reset), cfg |-> cfg]

\* RolloverPeriod that takes a period without a reset time for one that is due
RolloverAbsentDue(cfg, period, nw) ==
  LET reset_time_str == cfg.reset_times[period] IN
  IF reset_time_str = None
  THEN [due |-> TRUE,
        cfg |-> [cfg EXCEPT !.reset_times[period] = isoformat(nw)]]
  ELSE LET last_reset == fromisoformat(reset_time_str)
           next_reset == _get_next_reset(period, last_reset)
       IN IF ResetDue(nw, next_reset)
          THEN [due |-> TRUE,
                cfg |-> [cfg EXCEPT !.reset_times[period] = isoformat(nw)]]
          ELSE [due |-> FALSE, cfg |-> cfg]

\* One iteration of the loop of _check_and_reset_counters on a configuration:
\* whether the period's counter is to be deleted, and the configuration after.
RolloverPeriod(cfg, period, nw) ==
  LET reset_time_str == cfg.reset_times[period] IN
  IF reset_time_str = None
  THEN [due |-> FALSE, cfg |-> cfg]
  ELSE LET last_reset == fromisoformat(reset_time_str)
           next_reset == _get_next_reset(period, last_reset)
       IN IF ResetDue(nw, next_reset)
          THEN [due |-> TRUE,
                cfg |-> [cfg EXCEPT !.reset_times[period] = isoformat(nw)]]
          ELSE [due |-> FALSE, cfg |-> cfg]

\* Enforced with the test 'limit < 0'
EnforcedFromZero(limit) == limit >= 0

\* if limit <= 0: continue
Enforced(limit) == limit > 0

\* Saturated with the test 'current > limit'
SaturatedStrict(cur, limit) == cur > limit

\* if current >= limit
Saturated(cur, limit) == cur >= limit

\* RedisGet with INCR in the place of GET
RedisIncrForGet(cnts, period) ==
  [value |-> cnts[period], counts |-> [cnts EXCEPT ![period] = @ + 1]]

\* count = self.redis.get(key); int(count) if count else 0: the value read
\* (an absent key and "0" both read as 0) and the counters after the command
RedisGet(cnts, period) == [value |-> cnts[period], counts |-> cnts]

Max(S) == CHOOSE x \in S : \A y \in S : y <= x

\* The first position j >= i of the loop of _check_and_reset_counters whose
\* period is reset, Len(Periods) + 1 if there is none
NextDue(cfg, nw, i) ==
  LET due == { j \in i..Len(Periods) : RolloverPeriod(cfg, Periods[j], nw).due }
  IN IF due = {} THEN Len(Periods) + 1
     ELSE CHOOSE j \in due : \A k \in due : j <= k

\* The first position j >= i of the loop of the admission test whose period
\* is read, Len(Periods) + 1 if there is none
NextEnforced(limits, i) ==
  LET enf == { j \in i..Len(Periods) : Enforced(limits[Periods[j]]) }
  IN IF enf = {} THEN Len(Periods) + 1
     ELSE CHOOSE j \in enf : \A k \in enf : j <= k

\* PipelineExecute with a loop that stops before the month
PipelineSkipsMonth(cnts, exps, tot, limits, clk) ==
  [counts  |-> [w \in PeriodSet |->
                  IF Enforced(limits[w]) /\ w # "month" THEN cnts[w] + 1
                  ELSE cnts[w]],
   expires |-> [w \in PeriodSet |->
                  IF Enforced(limits[w]) /\ w # "month" THEN clk + _get_ttl(w)
                  ELSE exps[w]],
   total   |-> tot + 1]

\* PipelineExecute without the INCR of the lifetime total
PipelineWithoutTotal(cnts, exps, tot, limits, clk) ==
  [counts  |-> [w \in PeriodSet |->
                  IF Enforced(limits[w]) THEN cnts[w] + 1 ELSE cnts[w]],
   expires |-> [w \in PeriodSet |->
                  IF Enforced(limits[w]) THEN clk + _get_ttl(w) ELSE exps[w]],
   total   |-> tot]

\* The MULTI/EXEC pipeline of a granted admission: INCR + EXPIRE of every
\* enforced window, INCR of the lifetime total.
PipelineExecute(cnts, exps, tot, limits, clk) ==
  [counts  |-> [w \in PeriodSet |->
                  IF Enforced(limits[w]) THEN cnts[w] + 1 ELSE cnts[w]],
   expires |-> [w \in PeriodSet |->
                  IF Enforced(limits[w]) THEN clk + _get_ttl(w) ELSE exps[w]],
   total   |-> tot + 1]

\* The bytes of a Redis string value: the text json.dumps writes for a value,
\* a text that is no JSON document, or bytes that are no UTF-8 text
json_dumps(value) == [kind |-> "json", value |-> value]
NotJson == [kind |-> "text", value |-> None]
NotUtf8 == [kind |-> "bytes", value |-> None]

\* json.loads(bytes): the value of a JSON document whatever its shape,
\* json.JSONDecodeError for a text that is no JSON, UnicodeDecodeError (a
\* ValueError that is no JSONDecodeError) for bytes that do not decode
json_loads(bytes) ==
  CASE bytes.kind = "json" -> [outcome |-> "value", value |-> bytes.value]
    [] bytes.kind = "text" -> [outcome |-> "JSONDecodeError", value |-> None]
    [] bytes.kind = "bytes" -> [outcome |-> "UnicodeDecodeError", value |-> None]

\* What the code reads of a configuration: config['limits'][period] and
\* config['reset_times'][period]
HasConfigKeys(cfg) == DOMAIN cfg = { "limits", "reset_times" }

\* if not service: raise ValueError
ServiceFound(service) == service # None

\* The configuration _load_config builds from the service row
ConfigFromDb(service) ==
  [limits |-> service.limits,
   reset_times |-> [w \in PeriodSet |->
                      IF service.last_reset[w] = NoDate THEN None
                      ELSE isoformat(service.last_reset[w])]]

----------------------------------------------------------------------------
(* State *)

VARIABLES
  clock,       \* the wall clock (datetime.now / the Redis server's time)
  counts,      \* Redis ratelimit:<service>:<period>:count, 0 when absent
  expires,     \* the instant the counter key expires, -1 when it has no TTL
  total,       \* Redis ratelimit:<service>:total:count
  cache,       \* Redis ratelimit:<service>:config: <<>> or <<its bytes>>
  db,          \* the service row of the database, None when there is none
  workers,     \* the worker processes that are deployed
  offered,     \* the timeouts the callers of acquire pass
  pc,          \* where each process is
  config,      \* each RateLimiter's self._config
  now,         \* the now of the attempt in progress
  idx,         \* position in the loop over the periods
  updated,     \* the local 'updated' of _check_and_reset_counters
  current,     \* the counts the admission test read, -1 where none was read
  wait_times,  \* the local wait_times
  timer,       \* acquire's timeout, start_time and the end of its sleep
  calls,       \* number of acquire calls started
  results,     \* [ok, now] of the finished acquire calls, in order of return
  last,        \* the call that returned in the last step, NoCall if none did
  report,      \* what get_usage returned in the last step, NoReport if nothing
  full,        \* per process: the windows that were full when its call began
  streak,      \* per period: the grants since its counter was last 0
  deleted,     \* the period whose counter the last step deleted, "" if none
  lastDel,     \* per period: the now of the last rollover delete, -1 if none
  lockOwner,   \* Redis lock.api.<service_key>: the owner_id stored, 0 if absent
  lockExpiry,  \* the instant the lock key expires, -1 when it has no TTL
  lpc,         \* where each QueueBlocker's process is
  lcall,       \* the arguments and locals of its call in progress
  lcalls,      \* number of calls on QueueBlockers started
  lresult,     \* the call that ended in the last step, NoLockResult if none
  client,      \* the CoingeckoClient: its MAX_URL_LENGTH and its price URL
  ids,         \* the ids passed to _generate_safe_chunks_to_get_prices
  gpc,         \* where the generator is: "idle", "run" or "done"
  pos,         \* the position of its loop over ids
  current_chunk,   \* its local current_chunk
  current_length,  \* its local current_length
  yielded,     \* the chunks it has yielded, in order
  fpc,         \* where the price update is: "idle", "fetch", "save", "done"
  chunk_no,    \* get_prices: the chunks its loop has taken (its i)
  all_results, \* get_prices: id -> the usd of the price_info received
  failed_chunks,  \* get_prices: its list of {chunk, ids, error}
  price_list,  \* how get_prices ended: the prices returned, or what it raised
  freport,     \* the dict SmartPriceUpdater.__call__ returned
  sent,        \* the calls of session.request the client has made
  logs,        \* the client's self.logs: the ApiRequestLog entries appended
  counters,    \* the counter columns of the service row of the database
  saving,      \* the _save_to_db threads started that have not run yet
  synced,      \* what the last _save_to_db that committed had been given
  sync_event,  \* how the sync of the last granted admission went, "" if none
  limiter_of   \* the RateLimiter object each caller of acquire uses

vars == << clock, counts, expires, total, cache, db, workers, offered, pc,
           config, now, idx, updated, current, wait_times, timer, calls,
           results, last, report, full, streak, deleted, lastDel,
           lockOwner, lockExpiry, lpc, lcall, lcalls, lresult,
           client, ids, gpc, pos, current_chunk, current_length, yielded,
           fpc, chunk_no, all_results, failed_chunks, price_list, freport,
           sent, logs, counters, saving, synced, sync_event, limiter_of >>

store == << counts, expires, total >>
lockVars == << lockOwner, lockExpiry, lpc, lcall, lcalls, lresult >>
chunkVars == << client, ids, gpc, pos, current_chunk, current_length,
               yielded >>
fetchVars == << fpc, chunk_no, all_results, failed_chunks, price_list,
               freport, sent, logs >>
syncVars == << counters, saving, synced, sync_event >>
env == << db, workers, offered, lockVars, chunkVars, fetchVars, syncVars,
         limiter_of >>
locals == << now, idx, updated, current, wait_times, full >>

CallBudget == MaxWork \div Cardinality(workers)

NoTimeout == -1
Timeouts == { NoTimeout, 0 }

NotRead == [w \in PeriodSet |-> -1]

Limits(mi, ho, da, mo) ==
  [w \in PeriodSet |->
     CASE w = "minute" -> mi [] w = "hour" -> ho [] w = "day" -> da
       [] w = "month" -> mo]

\* The services the model explores: the limits of the four windows, and the
\* count that an earlier configuration left in the windows not enforced now
Services ==
  { [limits |-> Limits(2, 100, 0, 0), stale |-> 0],
    [limits |-> Limits(0, 0, -1, 2), stale |-> 5],
    [limits |-> Limits(1, 1, 0, 2), stale |-> 0] }

\* The last reset recorded in the database: in an earlier minute of the hour
\* the clock starts in, or in an earlier month
LastResetChoices == { DateTime(2024, 12, 1, 23, 57, 0) }

EmptyConfig == [limits |-> Limits(0, 0, 0, 0),
                reset_times |-> [w \in PeriodSet |-> None]]

\* No call on a QueueBlocker in progress.  waited: the call has slept a poll
\* interval in _acquire_with_wait with timeout None; store_error: a Redis
\* command of the call raised
NoLockCall == [scoped |-> FALSE, timeout |-> NoTimeout, lock_ttl |-> 0,
               start_time |-> 0, wake |-> 0, waited |-> FALSE,
               store_error |-> FALSE, acquired |-> FALSE,
               expired |-> FALSE, entered |-> FALSE, error |-> FALSE,
               timed_out |-> FALSE, releases |-> 0, released |-> FALSE]

NoLockResult == [owner |-> 0, op |-> "", ok |-> FALSE, raised |-> "",
                 call |-> NoLockCall]

\* No lock record, no QueueBlocker in a call
LockIdle ==
  /\ lockOwner = 0
  /\ lockExpiry = -1
  /\ lpc = [h \in Procs |-> "idle"]
  /\ lcall = [h \in Procs |-> NoLockCall]
  /\ lcalls = 0
  /\ lresult = NoLockResult

\* CoingeckoClient.BASE_URL, MAX_URL_LENGTH and
\* _get_url_for_chunks_to_get_prices
BASE_URL == "https://api.coingecko.com/api/v3"
MAX_URL_LENGTH == 2048
_get_url_for_chunks_to_get_prices ==
  BASE_URL \o "/simple/price?vs_currencies=usd&ids="

CoingeckoClient ==
  [MAX_URL_LENGTH |-> MAX_URL_LENGTH, url |-> _get_url_for_chunks_to_get_prices]

\* No generator of chunks at work
ChunkIdle ==
  /\ client = CoingeckoClient
  /\ ids = << >>
  /\ gpc = "idle"
  /\ pos = 1
  /\ current_chunk = << >>
  /\ current_length = 0
  /\ yielded = << >>

\* get_prices has not ended; SmartPriceUpdater.__call__ has not returned
NoPrices == [ended |-> FALSE, raised |-> "", prices |-> {}]
NoFetchReport == [status |-> ""]

\* No price update at work
FetchIdle ==
  /\ fpc = "idle"
  /\ chunk_no = 0
  /\ all_results = << >>
  /\ failed_chunks = << >>
  /\ price_list = NoPrices
  /\ freport = NoFetchReport
  /\ sent = 0
  /\ logs = << >>

\* The counter columns of a service row: each has default=0
NoCounters == [minute_counter |-> 0, hour_counter |-> 0, day_counter |-> 0,
               month_counter |-> 0, total_requests |-> 0]

\* No _save_to_db has committed
NoSync == [counts |-> << >>, total |-> 0]

\* No sync has been started
SyncIdle ==
  /\ counters = NoCounters
  /\ saving = << >>
  /\ synced = NoSync
  /\ sync_event = ""

\* Every process has a RateLimiter of its own
OwnLimiter == limiter_of = [p \in Procs |-> p]

\* No call of acquire in progress that has been denied an attempt
NoTimer == [timeout |-> NoTimeout, start_time |-> 0, wake |-> 0, sleeps |-> 0]

NoCall == [proc |-> 0, now |-> 0, ok |-> FALSE, wait |-> 0, cur |-> NotRead,
           full |-> {}, timeout |-> NoTimeout, end |-> 0, raised |-> FALSE,
           start |-> 0, sleeps |-> 0]

NoReport == [proc |-> 0, usage |-> << >>]

Init ==
  /\ clock = TimeTable[1]
  /\ \E s \in Services, r \in LastResetChoices :
       /\ db = [limits |-> s.limits, last_reset |-> [w \in PeriodSet |-> r]]
       /\ counts = [w \in PeriodSet |->
                      IF Enforced(s.limits[w]) THEN 0 ELSE s.stale]
  /\ expires = [w \in PeriodSet |->
                  IF counts[w] = 0 THEN -1 ELSE clock + _get_ttl(w)]
  /\ total = 0
  /\ cache = << >>
  /\ \E n \in Procs : workers = 1..n
  /\ offered = Timeouts
  /\ timer = [p \in Procs |-> NoTimer]
  /\ pc = [p \in Procs |-> "new"]
  /\ config = [p \in Procs |-> EmptyConfig]
  /\ now = [p \in Procs |-> 0]
  /\ idx = [p \in Procs |-> 1]
  /\ updated = [p \in Procs |-> FALSE]
  /\ current = [p \in Procs |-> NotRead]
  /\ wait_times = [p \in Procs |-> {}]
  /\ calls = 0
  /\ results = << >>
  /\ last = NoCall
  /\ report = NoReport
  /\ full = [p \in Procs |-> {}]
  /\ streak = [w \in PeriodSet |-> [start |-> 0, n |-> 0]]
  /\ deleted = ""
  /\ lastDel = [w \in PeriodSet |-> -1]
  /\ LockIdle
  /\ ChunkIdle
  /\ FetchIdle
  /\ SyncIdle
  /\ OwnLimiter

\* What the configuration key can hold when a limiter is constructed:
\* nothing, the configuration an earlier limiter wrote after a rollover, a
\* JSON document of another shape (here: without reset_times), a text that
\* is no JSON, bytes that are no text
CachedResetTime == DateTime(2024, 12, 1, 23, 58, 10)

CacheChoices(limits) ==
  { << >>,
    << json_dumps([limits |-> limits,
                   reset_times |-> [w \in PeriodSet |->
                                      isoformat(CachedResetTime)]]) >>,
    << json_dumps([limits |-> limits]) >>,
    << NotJson >>,
    << NotUtf8 >> }

\* The states a limiter can be constructed in: as Init, with any content of
\* the configuration key, and with or without the service row where the key
\* holds no configuration
InitLoad ==
  /\ clock = TimeTable[1]
  /\ \E s \in Services, r \in LastResetChoices :
       /\ db \in { [limits |-> s.limits, last_reset |-> [w \in PeriodSet |-> r]],
                   None }
       /\ cache \in CacheChoices(s.limits)
       /\ db = None => (IF cache = << >> THEN TRUE
                        ELSE cache[1].kind # "json")
       /\ counts = [w \in PeriodSet |->
                      IF Enforced(s.limits[w]) THEN 0 ELSE s.stale]
  /\ expires = [w \in PeriodSet |->
                  IF counts[w] = 0 THEN -1 ELSE clock + _get_ttl(w)]
  /\ total = 0
  /\ \E n \in Procs : workers = 1..n
  /\ offered = Timeouts
  /\ timer = [p \in Procs |-> NoTimer]
  /\ pc = [p \in Procs |-> "new"]
  /\ config = [p \in Procs |-> EmptyConfig]
  /\ now = [p \in Procs |-> 0]
  /\ idx = [p \in Procs |-> 1]
  /\ updated = [p \in Procs |-> FALSE]
  /\ current = [p \in Procs |-> NotRead]
  /\ wait_times = [p \in Procs |-> {}]
  /\ calls = 0
  /\ results = << >>
  /\ last = NoCall
  /\ report = NoReport
  /\ full = [p \in Procs |-> {}]
  /\ streak = [w \in PeriodSet |-> [start |-> 0, n |-> 0]]
  /\ deleted = ""
  /\ lastDel = [w \in PeriodSet |-> -1]
  /\ LockIdle
  /\ ChunkIdle
  /\ FetchIdle
  /\ SyncIdle
  /\ OwnLimiter

\* Where acquire is followed through its sleeps, the clock runs second by
\* second from a few seconds before a minute boundary, over one service with
\* a minute limit of 1, and the callers pass timeouts of every kind
WaitStart == DateTime(2024, 12, 1, 23, 58, 57)
WaitService == [limits |-> Limits(1, 100, 0, 0), stale |-> 5]
WaitTimeouts == { NoTimeout, 0, 2, 4 }

InitWait ==
  /\ clock = WaitStart
  /\ \E r \in LastResetChoices :
       db = [limits |-> WaitService.limits,
             last_reset |-> [w \in PeriodSet |-> r]]
  /\ counts = [w \in PeriodSet |->
                 IF Enforced(WaitService.limits[w]) THEN 0
                 ELSE WaitService.stale]
  /\ expires = [w \in PeriodSet |->
                  IF counts[w] = 0 THEN -1 ELSE clock + _get_ttl(w)]
  /\ total = 0
  /\ cache = << >>
  /\ \E n \in Procs : workers = 1..n
  /\ offered = WaitTimeouts
  /\ timer = [p \in Procs |-> NoTimer]
  /\ pc = [p \in Procs |-> "new"]
  /\ config = [p \in Procs |-> EmptyConfig]
  /\ now = [p \in Procs |-> 0]
  /\ idx = [p \in Procs |-> 1]
  /\ updated = [p \in Procs |-> FALSE]
  /\ current = [p \in Procs |-> NotRead]
  /\ wait_times = [p \in Procs |-> {}]
  /\ calls = 0
  /\ results = << >>
  /\ last = NoCall
  /\ report = NoReport
  /\ full = [p \in Procs |-> {}]
  /\ streak = [w \in PeriodSet |-> [start |-> 0, n |-> 0]]
  /\ deleted = ""
  /\ lastDel = [w \in PeriodSet |-> -1]
  /\ LockIdle
  /\ ChunkIdle
  /\ FetchIdle
  /\ SyncIdle
  /\ OwnLimiter

----------------------------------------------------------------------------
(* Actions *)

\* A step in which no call returns
NoReturn == last' = NoCall /\ report' = NoReport /\ UNCHANGED results

\* A step that deletes no counter
NoDelete == deleted' = "" /\ UNCHANGED lastDel

\* RateLimiter.__init__ / _load_config: GET of the cached configuration.
\* What json.loads returns is the configuration, whatever its shape; only
\* json.JSONDecodeError is caught and leads to the database; any other
\* exception ends the construction.
LoadConfig(p) ==
  /\ p \in workers
  /\ pc[p] = "new"
  /\ IF cache = << >>
     THEN /\ pc' = [pc EXCEPT ![p] = "load_db"]
          /\ UNCHANGED config
     ELSE LET r == json_loads(cache[1])
          IN CASE r.outcome = "value" ->
                    /\ config' = [config EXCEPT ![p] = r.value]
                    /\ pc' = [pc EXCEPT ![p] = "idle"]
               [] r.outcome = "JSONDecodeError" ->
                    /\ pc' = [pc EXCEPT ![p] = "load_db"]
                    /\ UNCHANGED config
               [] OTHER ->
                    /\ pc' = [pc EXCEPT ![p] = "failed"]
                    /\ UNCHANGED config
  /\ UNCHANGED << clock, store, cache, env, timer, locals, calls, streak >>
  /\ NoReturn
  /\ NoDelete

\* A missing service row handled by a configuration without limits
LoadFromDbWithDefault(p) ==
  /\ pc[p] = "load_db"
  /\ LET cfg == IF ServiceFound(db) THEN ConfigFromDb(db) ELSE EmptyConfig
     IN /\ config' = [config EXCEPT ![p] = cfg]
        /\ cache' = << json_dumps(cfg) >>
  /\ pc' = [pc EXCEPT ![p] = "idle"]
  /\ UNCHANGED << clock, store, env, timer, locals, calls, streak >>
  /\ NoReturn
  /\ NoDelete

\* _load_config on a cache miss: read the service row; without one,
\* ValueError ends the construction and there is no limiter; with one,
\* build the configuration and update_redis(config)
LoadFromDb(p) ==
  /\ pc[p] = "load_db"
  /\ IF ServiceFound(db)
     THEN /\ config' = [config EXCEPT ![p] = ConfigFromDb(db)]
          /\ cache' = << json_dumps(ConfigFromDb(db)) >>
          /\ pc' = [pc EXCEPT ![p] = "idle"]
     ELSE /\ pc' = [pc EXCEPT ![p] = "failed"]
          /\ UNCHANGED << config, cache >>
  /\ UNCHANGED << clock, store, env, timer, locals, calls, streak >>
  /\ NoReturn
  /\ NoDelete

\* start_time = time.time() of the call in progress: the instant of its first
\* attempt
CallStart(p) == IF timer[p] = NoTimer THEN now[p] ELSE timer[p].start_time

\* An exception leaves acquire: nothing catches it between the Redis command
\* and the caller, and the locals of the attempt are gone
Raise(p) ==
  /\ last' = [proc |-> p, now |-> now[p], ok |-> FALSE, wait |-> 0,
              cur |-> current[p], full |-> full[p],
              timeout |-> timer[p].timeout, end |-> clock, raised |-> TRUE,
              start |-> CallStart(p), sleeps |-> timer[p].sleeps]
  /\ report' = NoReport
  /\ pc' = [pc EXCEPT ![p] = "idle"]
  /\ idx' = [idx EXCEPT ![p] = 1]
  /\ now' = [now EXCEPT ![p] = 0]
  /\ updated' = [updated EXCEPT ![p] = FALSE]
  /\ current' = [current EXCEPT ![p] = NotRead]
  /\ wait_times' = [wait_times EXCEPT ![p] = {}]
  /\ full' = [full EXCEPT ![p] = {}]
  /\ timer' = [timer EXCEPT ![p] = NoTimer]
  /\ UNCHANGED results

\* Where an attempt goes once the loop of _check_and_reset_counters has no
\* further period to reset
AfterRollover(cfg, upd) ==
  IF upd THEN "persist"
  ELSE IF NextEnforced(cfg.limits, 1) <= Len(Periods) THEN "read"
  ELSE "grant"

\* The windows that have had exactly their limit of grants since their count
\* was 0, all within the calendar window the instant t is in
FullWindows(limits, t) ==
  { w \in PeriodSet :
      /\ Enforced(limits[w])
      /\ streak[w].n = limits[w]
      /\ _get_next_reset(w, streak[w].start) > t }

\* An attempt up to the first Redis command of _atomic_check_and_increment:
\* now is taken.  A configuration without the keys the code reads makes
\* self._config['reset_times'][period] raise KeyError, which leaves acquire.
Attempt(p) ==
  /\ IF HasConfigKeys(config[p])
     THEN /\ now' = [now EXCEPT ![p] = clock]
          /\ full' = [full EXCEPT ![p] = FullWindows(config[p].limits, clock)]
          /\ LET j == NextDue(config[p], clock, 1)
             IN IF j <= Len(Periods)
                THEN /\ pc' = [pc EXCEPT ![p] = "rollover"]
                     /\ idx' = [idx EXCEPT ![p] = j]
                ELSE /\ pc' = [pc EXCEPT ![p] =
                                  AfterRollover(config[p], FALSE)]
                     /\ idx' = [idx EXCEPT ![p] =
                                   NextEnforced(config[p].limits, 1)]
          /\ UNCHANGED << updated, current, wait_times, timer >>
          /\ NoReturn
     ELSE Raise(p)
  /\ UNCHANGED << clock, store, cache, env, config, streak >>
  /\ NoDelete

\* acquire(timeout): start_time is taken and the first attempt begins
BeginAcquire(p) ==
  /\ pc[p] = "idle"
  /\ calls < CallBudget
  /\ calls' = calls + 1
  /\ Attempt(p)

\* time.sleep(sleep_time) has returned: the next attempt of the loop begins
Retry(p) ==
  /\ pc[p] = "sleep"
  /\ clock >= timer[p].wake
  /\ Attempt(p)
  /\ UNCHANGED calls

\* _check_and_reset_counters: the DEL of a period that is reset, and the loop
\* up to the next one
RolloverStep(p) ==
  /\ pc[p] = "rollover"
  /\ LET w == Periods[idx[p]]
         r == RolloverPeriod(config[p], w, now[p])
         \* the later periods have their reset times as before this iteration
         j == NextDue(config[p], now[p], idx[p] + 1)
     IN /\ r.due
        /\ config' = [config EXCEPT ![p] = r.cfg]
        /\ updated' = [updated EXCEPT ![p] = TRUE]
        /\ counts' = [counts EXCEPT ![w] = 0]
        /\ expires' = [expires EXCEPT ![w] = -1]
        /\ deleted' = w
        /\ lastDel' = [lastDel EXCEPT ![w] = now[p]]
        /\ IF j <= Len(Periods)
           THEN /\ idx' = [idx EXCEPT ![p] = j]
                /\ UNCHANGED pc
           ELSE /\ idx' = [idx EXCEPT ![p] = 1]
                /\ pc' = [pc EXCEPT ![p] = "persist"]
  /\ UNCHANGED << clock, total, cache, env, timer, now, current, wait_times, full, calls, streak >>
  /\ NoReturn

\* if updated: self.update_redis()
Persist(p) ==
  /\ pc[p] = "persist"
  /\ updated[p]
  /\ cache' = << json_dumps(config[p]) >>
  /\ pc' = [pc EXCEPT ![p] = AfterRollover(config[p], FALSE)]
  /\ idx' = [idx EXCEPT ![p] = NextEnforced(config[p].limits, 1)]
  /\ UNCHANGED << clock, store, env, timer, config, now, updated, current, wait_times, full, calls, streak >>
  /\ NoReturn
  /\ NoDelete

\* acquire returns r: the locals of the attempt are gone
Return(p, r) ==
  /\ results' = Append(results, [ok |-> r.ok, now |-> r.now])
  /\ last' = r
  /\ report' = NoReport
  /\ pc' = [pc EXCEPT ![p] = "idle"]
  /\ idx' = [idx EXCEPT ![p] = 1]
  /\ now' = [now EXCEPT ![p] = 0]
  /\ updated' = [updated EXCEPT ![p] = FALSE]
  /\ current' = [current EXCEPT ![p] = NotRead]
  /\ wait_times' = [wait_times EXCEPT ![p] = {}]
  /\ full' = [full EXCEPT ![p] = {}]
  /\ timer' = [timer EXCEPT ![p] = NoTimer]

\* An acquire that gives up only when it has no timeout
GivesUpWithoutTimeoutOnly(to, start_time, wait_time) == to = NoTimeout

\* acquire after a denied attempt: return False if timeout is None, or if
\* wait_time > remaining or remaining <= 0
GivesUp(to, start_time, wait_time) ==
  LET elapsed == clock - start_time
      remaining == to - elapsed
  IN to = NoTimeout \/ wait_time > remaining \/ remaining <= 0

Min3(a, b, c) ==
  IF a <= b /\ a <= c THEN a ELSE IF b <= c THEN b ELSE c

\* A sleep of the whole reported wait
SleepsWholeWait(wait_time, remaining) == wait_time

\* sleep_time = min(wait_time, 1.0, remaining)
SleepTime(wait_time, remaining) == Min3(wait_time, 1, remaining)

\* The admission test: the GET of an enforced period and the loop up to the
\* next one.  After the last one, if wait_times: return False,
\* max(wait_times), and acquire returns False or sleeps before the next
\* attempt.  The timeout of the call is first looked at at its first denied
\* attempt, and is drawn there; start_time is the instant the call began.
ReadStep(p) ==
  /\ pc[p] = "read"
  /\ LET w == Periods[idx[p]]
         limit == config[p].limits[w]
         get == RedisGet(counts, w)
         cur == get.value
         wait_time == _get_next_reset(w, now[p]) - now[p]
         curs == [current[p] EXCEPT ![w] = cur]
         waits == IF Saturated(cur, limit) /\ wait_time > 0
                  THEN wait_times[p] \cup {wait_time}
                  ELSE wait_times[p]
         j == NextEnforced(config[p].limits, idx[p] + 1)
         first == timer[p] = NoTimer
         start_time == CallStart(p)
     IN /\ counts' = get.counts
        /\ IF j <= Len(Periods)
           THEN /\ idx' = [idx EXCEPT ![p] = j]
                /\ current' = [current EXCEPT ![p] = curs]
                /\ wait_times' = [wait_times EXCEPT ![p] = waits]
                /\ UNCHANGED << pc, now, updated, full, timer >>
                /\ NoReturn
           ELSE IF waits # {}
           THEN \E to \in (IF first THEN offered ELSE { timer[p].timeout }) :
                  IF GivesUp(to, start_time, Max(waits))
                  THEN Return(p, [proc |-> p, now |-> now[p], ok |-> FALSE,
                                  wait |-> Max(waits), cur |-> curs,
                                  full |-> full[p], timeout |-> to,
                                  end |-> clock, raised |-> FALSE,
                                  start |-> start_time,
                                  sleeps |-> timer[p].sleeps])
                  ELSE /\ timer' = [timer EXCEPT ![p] =
                            [timeout |-> to, start_time |-> start_time,
                             wake |-> clock + SleepTime(Max(waits),
                                        to - (clock - start_time)),
                             sleeps |-> timer[p].sleeps + 1]]
                       /\ pc' = [pc EXCEPT ![p] = "sleep"]
                       /\ idx' = [idx EXCEPT ![p] = 1]
                       /\ now' = [now EXCEPT ![p] = 0]
                       /\ updated' = [updated EXCEPT ![p] = FALSE]
                       /\ current' = [current EXCEPT ![p] = NotRead]
                       /\ wait_times' = [wait_times EXCEPT ![p] = {}]
                       /\ full' = [full EXCEPT ![p] = {}]
                       /\ NoReturn
           ELSE /\ idx' = [idx EXCEPT ![p] = 1]
                /\ current' = [current EXCEPT ![p] = curs]
                /\ pc' = [pc EXCEPT ![p] = "grant"]
                /\ UNCHANGED << wait_times, now, updated, full, timer >>
                /\ NoReturn
  /\ UNCHANGED << clock, expires, total, cache, env, config, calls, streak >>
  /\ NoDelete

\* How the sync of a granted admission can go: random.random() was not below
\* 1 / sync_interval and there is none; a redis.get of its loop raised; the
\* start of the thread raised; the thread was started
SyncOutcomes == { "none", "read_failed", "start_failed", "started" }

\* _sync_to_db_async that lets the exceptions of its body through
SyncLetsThrough(outcome) == outcome \in { "read_failed", "start_failed" }

\* try: ... except Exception as e: logger.error(...): nothing of the sync
\* reaches _atomic_check_and_increment
SyncPropagates(outcome) == FALSE

\* dict.get(key, default)
DictGet(d, key, default) == IF key \in DOMAIN d THEN d[key] ELSE default

\* _sync_to_db_async after pipeline.execute(): counts holds what redis.get
\* returns for the four periods, and a thread is started with it; total is
\* the lifetime total of the store at that time, which is not read
_sync_to_db_async(outcome) ==
  /\ sync_event' = outcome
  /\ saving' = IF outcome = "started"
               THEN Append(saving,
                           [counts |-> [w \in PeriodSet |->
                                          RedisGet(counts', w).value],
                            total |-> total'])
               ELSE saving
  /\ UNCHANGED << counters, synced >>

\* pipeline.execute(); return True, 0; acquire returns True
Admit(p, outcome) ==
  /\ pc[p] = "grant"
  /\ LET r == PipelineExecute(counts, expires, total, config[p].limits, clock)
     IN /\ counts' = r.counts
        /\ expires' = r.expires
        /\ total' = r.total
  /\ streak' = [w \in PeriodSet |->
                  IF counts'[w] = counts[w] THEN streak[w]
                  ELSE IF counts[w] = 0 THEN [start |-> clock, n |-> 1]
                  ELSE [streak[w] EXCEPT !.n = @ + 1]]
  /\ IF SyncPropagates(outcome)
     THEN Raise(p)
     ELSE Return(p, [proc |-> p, now |-> now[p], ok |-> TRUE, wait |-> 0,
                     cur |-> current[p], full |-> full[p],
                     timeout |-> timer[p].timeout, end |-> clock,
                     raised |-> FALSE, start |-> CallStart(p),
                     sleeps |-> timer[p].sleeps])
  /\ _sync_to_db_async(outcome)
  /\ UNCHANGED << clock, cache, db, workers, offered, lockVars, chunkVars,
                  fetchVars, limiter_of, config, calls >>
  /\ NoDelete

\* An admission whose random.random() is not below 1 / sync_interval
Grant(p) == Admit(p, "none")

\* An admission with whatever the sync does
GrantSync(p) == \E outcome \in SyncOutcomes : Admit(p, outcome)

\* The rest of a sequence without its i-th element
Without(seq, i) == SubSeq(seq, 1, i - 1) \o SubSeq(seq, i + 1, Len(seq))

\* _save_to_db in its thread: the row is read FOR UPDATE, its counter columns
\* are set from counts and the session commits; an exception on the way (the
\* connection, the lock, the commit) is logged, the session rolls back
_save_to_db(i, fails) ==
  /\ i \in 1..Len(saving)
  /\ LET cnts == saving[i].counts
     IN IF fails \/ ~ServiceFound(db)
        THEN UNCHANGED << counters, synced >>
        ELSE /\ counters' =
                  [minute_counter |-> DictGet(cnts, "minute", 0),
                   hour_counter |-> DictGet(cnts, "hour", 0),
                   day_counter |-> DictGet(cnts, "day", 0),
                   month_counter |-> DictGet(cnts, "month", 0),
                   total_requests |-> DictGet(cnts, "total", 0)]
             /\ synced' = saving[i]
  /\ saving' = Without(saving, i)
  /\ UNCHANGED << clock, store, cache, db, workers, offered, lockVars,
                  chunkVars, fetchVars, sync_event, limiter_of, timer, pc,
                  config, locals, calls, streak >>
  /\ NoReturn
  /\ NoDelete

SaveStep == \E i \in 1..Len(saving), fails \in BOOLEAN : _save_to_db(i, fails)

\* The Redis command a process is about to issue (the DEL of a rollover, the
\* SET of the configuration, a GET of the admission test, pipeline.execute)
\* raises redis.exceptions.RedisError before the server runs it.  The except
\* clause of _check_and_reset_counters names ValueError and TypeError only,
\* and _atomic_check_and_increment and acquire have none.
StoreFails(p) ==
  /\ pc[p] \in { "rollover", "persist", "read", "grant" }
  /\ Raise(p)
  /\ UNCHANGED << clock, store, cache, env, config, calls, streak >>
  /\ NoDelete

\* Time passes up to the instant t; Redis drops the keys whose TTL has run out
Advance(t) ==
  /\ t > clock
  /\ clock' = t
  /\ counts' = [w \in PeriodSet |->
                  IF expires[w] # -1 /\ expires[w] <= t THEN 0 ELSE counts[w]]
  /\ expires' = [w \in PeriodSet |->
                  IF expires[w] # -1 /\ expires[w] <= t THEN -1
                  ELSE expires[w]]
  /\ UNCHANGED << total, cache, env, timer, pc, config, locals, calls, streak >>
  /\ NoReturn
  /\ NoDelete

\* The clock moves on to a later instant of the table
Tick == \E t \in Times : Advance(t)

\* The clock moves on by a second, within the seconds explored and as long
\* as a process sleeps
TickSecond ==
  /\ \/ clock < WaitStart + MaxSeconds
     \/ \E p \in Procs : pc[p] = "sleep" /\ timer[p].wake > clock
  /\ Advance(clock + 1)

\* remaining = max(0, limit - used) without the max
RemainingUnclamped(limit, used) == limit - used

\* max(0, self._config['limits'][period] - used)
Remaining(limit, used) == Max({ 0, limit - used })

\* get_usage: the GET of the next period; after the last one the dictionary
\* is returned.  The counts read so far are kept in current.
GetUsageStep(p) ==
  /\ \/ pc[p] = "idle" /\ calls < CallBudget /\ HasConfigKeys(config[p])
     \/ pc[p] = "usage"
  /\ calls' = IF pc[p] = "idle" THEN calls + 1 ELSE calls
  /\ LET w == Periods[idx[p]]
         get == RedisGet(counts, w)
         used == [current[p] EXCEPT ![w] = get.value]
     IN /\ counts' = get.counts
        /\ IF idx[p] < Len(Periods)
           THEN /\ pc' = [pc EXCEPT ![p] = "usage"]
                /\ idx' = [idx EXCEPT ![p] = idx[p] + 1]
                /\ current' = [current EXCEPT ![p] = used]
                /\ report' = NoReport
           ELSE /\ pc' = [pc EXCEPT ![p] = "idle"]
                /\ idx' = [idx EXCEPT ![p] = 1]
                /\ current' = [current EXCEPT ![p] = NotRead]
                /\ report' =
                     [proc |-> p,
                      usage |-> [v \in PeriodSet |->
                        [used |-> used[v],
                         limit |-> config[p].limits[v],
                         remaining |-> Remaining(config[p].limits[v],
                                                 used[v])]]]
  /\ last' = NoCall
  /\ UNCHANGED << clock, expires, total, cache, env, timer, config, now,
                  updated, wait_times, full, results, streak >>
  /\ NoDelete

Next ==
  \/ \E p \in Procs : LoadConfig(p)
  \/ \E p \in Procs : LoadFromDb(p)
  \/ \E p \in Procs : BeginAcquire(p)
  \/ \E p \in Procs : RolloverStep(p)
  \/ \E p \in Procs : Persist(p)
  \/ \E p \in Procs : ReadStep(p)
  \/ \E p \in Procs : Grant(p)
  \/ Tick

Spec == Init /\ [][Next]_vars

\* The same program, constructed over any content of the configuration key
SpecLoad == InitLoad /\ [][Next]_vars

\* The same program over service rows in which some of the last_*_reset
\* columns are NULL
AbsentChoices == { { "minute" }, { "hour", "month" } }

InitAbsent ==
  /\ clock = TimeTable[1]
  /\ \E s \in Services, r \in LastResetChoices, absent \in AbsentChoices :
       /\ db = [limits |-> s.limits,
                last_reset |-> [w \in PeriodSet |->
                                  IF w \in absent THEN NoDate ELSE r]]
       /\ counts = [w \in PeriodSet |->
                      IF Enforced(s.limits[w]) THEN 0 ELSE s.stale]
  /\ expires = [w \in PeriodSet |->
                  IF counts[w] = 0 THEN -1 ELSE clock + _get_ttl(w)]
  /\ total = 0
  /\ cache = << >>
  /\ \E n \in Procs : workers = 1..n
  /\ offered = Timeouts
  /\ timer = [p \in Procs |-> NoTimer]
  /\ pc = [p \in Procs |-> "new"]
  /\ config = [p \in Procs |-> EmptyConfig]
  /\ now = [p \in Procs |-> 0]
  /\ idx = [p \in Procs |-> 1]
  /\ updated = [p \in Procs |-> FALSE]
  /\ current = [p \in Procs |-> NotRead]
  /\ wait_times = [p \in Procs |-> {}]
  /\ calls = 0
  /\ results = << >>
  /\ last = NoCall
  /\ report = NoReport
  /\ full = [p \in Procs |-> {}]
  /\ streak = [w \in PeriodSet |-> [start |-> 0, n |-> 0]]
  /\ deleted = ""
  /\ lastDel = [w \in PeriodSet |-> -1]
  /\ LockIdle
  /\ ChunkIdle
  /\ FetchIdle
  /\ SyncIdle
  /\ OwnLimiter

SpecAbsent == InitAbsent /\ [][Next]_vars

\* The same program with the clock running second by second, with callers
\* that pass timeouts and are made to wait, and with get_usage
NextWait ==
  \/ \E p \in Procs : LoadConfig(p)
  \/ \E p \in Procs : LoadFromDb(p)
  \/ \E p \in Procs : BeginAcquire(p)
  \/ \E p \in Procs : Retry(p)
  \/ \E p \in Procs : RolloverStep(p)
  \/ \E p \in Procs : Persist(p)
  \/ \E p \in Procs : ReadStep(p)
  \/ \E p \in Procs : Grant(p)
  \/ \E p \in Procs : GetUsageStep(p)
  \/ TickSecond

SpecWait == InitWait /\ [][NextWait]_vars

\* The same, with processes that are scheduled and a clock that goes on: a
\* process that can take the next step of its acquire takes it, a sleep that
\* is over ends, and time passes
AcquireStep(p) ==
  \/ Retry(p)
  \/ RolloverStep(p)
  \/ Persist(p)
  \/ ReadStep(p)
  \/ Grant(p)

SpecWaitFair ==
  /\ SpecWait
  /\ WF_vars(TickSecond)
  /\ \A p \in Procs : WF_vars(AcquireStep(p))

\* The same program with the sync to the database that follows an admission
\* when random.random() < 1 / sync_interval, over one service
SyncService == [limits |-> Limits(2, 100, 0, 0), stale |-> 0]

InitSync ==
  /\ Init
  /\ db.limits = SyncService.limits

NextSync ==
  \/ \E p \in Procs : LoadConfig(p)
  \/ \E p \in Procs : LoadFromDb(p)
  \/ \E p \in Procs : BeginAcquire(p)
  \/ \E p \in Procs : RolloverStep(p)
  \/ \E p \in Procs : Persist(p)
  \/ \E p \in Procs : ReadStep(p)
  \/ \E p \in Procs : GrantSync(p)
  \/ SaveStep
  \/ Tick

SpecSync == InitSync /\ [][NextSync]_vars

\* The threads of one process that call acquire for the same service.  A
\* thread's RateLimiter is the one of the client it holds: a client makes
\* its own with its first request (base/client.py:37-41), and every
\* registry.get_service makes a new service with a new client
\* (registry.py:20-24), so two threads share a RateLimiter, and its RLock,
\* only if they were handed the same client.  The clock stands still within
\* the minute of the last reset, so no rollover is due and the configuration
\* of a limiter is the same for all its threads.
ThreadService == [limits |-> Limits(1, 100, 0, 0), stale |-> 0]
LimiterChoices == { [p \in Procs |-> 1], [p \in Procs |-> p] }

InitThread ==
  /\ clock = TimeTable[1]
  /\ db = [limits |-> ThreadService.limits,
           last_reset |-> [w \in PeriodSet |-> clock]]
  /\ counts = [w \in PeriodSet |-> 0]
  /\ expires = [w \in PeriodSet |-> -1]
  /\ total = 0
  /\ cache = << >>
  /\ \E n \in Procs : workers = 1..n
  /\ offered = Timeouts
  /\ timer = [p \in Procs |-> NoTimer]
  /\ pc = [p \in Procs |-> "new"]
  /\ config = [p \in Procs |-> EmptyConfig]
  /\ now = [p \in Procs |-> 0]
  /\ idx = [p \in Procs |-> 1]
  /\ updated = [p \in Procs |-> FALSE]
  /\ current = [p \in Procs |-> NotRead]
  /\ wait_times = [p \in Procs |-> {}]
  /\ calls = 0
  /\ results = << >>
  /\ last = NoCall
  /\ report = NoReport
  /\ full = [p \in Procs |-> {}]
  /\ streak = [w \in PeriodSet |-> [start |-> 0, n |-> 0]]
  /\ deleted = ""
  /\ lastDel = [w \in PeriodSet |-> -1]
  /\ LockIdle
  /\ ChunkIdle
  /\ FetchIdle
  /\ SyncIdle
  /\ limiter_of \in LimiterChoices

\* Thread p is inside 'with self._lock' of its RateLimiter
HoldsLock(p) == pc[p] \in { "rollover", "persist", "read", "grant" }

\* with self._lock: the RLock of p's RateLimiter is held by no other thread
LockFree(p) ==
  \A q \in Procs \ {p} : limiter_of[q] = limiter_of[p] => ~HoldsLock(q)

\* acquire in a thread: the attempt begins when the thread has the lock
AcquireInThread(p) ==
  /\ LockFree(p)
  /\ BeginAcquire(p)

NextThread ==
  \/ \E p \in Procs : LoadConfig(p)
  \/ \E p \in Procs : LoadFromDb(p)
  \/ \E p \in Procs : AcquireInThread(p)
  \/ \E p \in Procs : ReadStep(p)
  \/ \E p \in Procs : Grant(p)

SpecThread == InitThread /\ [][NextThread]_vars

\* The same program with a Redis that can fail
NextFault ==
  \/ Next
  \/ \E p \in Procs : StoreFails(p)

SpecFault == Init /\ [][NextFault]_vars

----------------------------------------------------------------------------
(* QueueBlocker: app/services/api_management/queue_blocker.py.  Each worker  *)
(* process has its own QueueBlocker for the same service_key; its owner_id  *)
(* is a fresh uuid4, here the number of the process.                        *)

DEFAULT_POLL_INTERVAL == 30

\* The clock of the lock moves in steps of half a poll interval
TickLength == DEFAULT_POLL_INTERVAL \div 2

\* The lock_ttl and the timeout the callers pass
Leases == { 3 * TickLength }
LockTimeouts == { NoTimeout, 0, TickLength, DEFAULT_POLL_INTERVAL }

LockStart == TimeTable[1]
LockEnd == LockStart + MaxLockTicks * TickLength

\* The variables of the rate limiter and of the price client, which the lock
\* leaves alone
limiterVars == << counts, expires, total, cache, db, workers, offered, pc,
                  config, now, idx, updated, current, wait_times, timer,
                  calls, results, last, report, full, streak, deleted,
                  lastDel, chunkVars, fetchVars, syncVars, limiter_of >>

\* No limiter is at work while the lock is looked at; the worker processes
\* deployed use their QueueBlockers
InitLock ==
  /\ clock = LockStart
  /\ db = None
  /\ counts = [w \in PeriodSet |-> 0]
  /\ expires = [w \in PeriodSet |-> -1]
  /\ total = 0
  /\ cache = << >>
  /\ \E n \in Procs : workers = 1..n
  /\ offered = Timeouts
  /\ timer = [p \in Procs |-> NoTimer]
  /\ pc = [p \in Procs |-> "new"]
  /\ config = [p \in Procs |-> EmptyConfig]
  /\ now = [p \in Procs |-> 0]
  /\ idx = [p \in Procs |-> 1]
  /\ updated = [p \in Procs |-> FALSE]
  /\ current = [p \in Procs |-> NotRead]
  /\ wait_times = [p \in Procs |-> {}]
  /\ calls = 0
  /\ results = << >>
  /\ last = NoCall
  /\ report = NoReport
  /\ full = [p \in Procs |-> {}]
  /\ streak = [w \in PeriodSet |-> [start |-> 0, n |-> 0]]
  /\ deleted = ""
  /\ lastDel = [w \in PeriodSet |-> -1]
  /\ LockIdle
  /\ ChunkIdle
  /\ FetchIdle
  /\ SyncIdle
  /\ OwnLimiter

\* SET key token EX ttl without NX: the value is written over any owner
SetOverwrites(owner, expiry, token, ttl, t) ==
  [acquired |-> TRUE, owner |-> token, expiry |-> t + ttl]

\* SET key token NX without EX: a record that never expires
SetNxNoExpiry(owner, expiry, token, ttl, t) ==
  IF owner = 0
  THEN [acquired |-> TRUE, owner |-> token, expiry |-> -1]
  ELSE [acquired |-> FALSE, owner |-> owner, expiry |-> expiry]

\* self.redis.set(self.lock_key, self.owner_id, ex=lock_ttl, nx=True) at the
\* instant t: one Redis command
SetNx(owner, expiry, token, ttl, t) ==
  IF owner = 0
  THEN [acquired |-> TRUE, owner |-> token, expiry |-> t + ttl]
  ELSE [acquired |-> FALSE, owner |-> owner, expiry |-> expiry]

\* A script that reports the release without deleting the key
CompareWithoutDelete(owner, expiry, token) ==
  [result |-> IF owner = token THEN 1 ELSE 0, owner |-> owner,
   expiry |-> expiry]

\* A release that deletes the key without comparing the owner
DeleteUncompared(owner, expiry, token) ==
  [result |-> IF owner = 0 THEN 0 ELSE 1, owner |-> 0, expiry |-> -1]

\* The Lua script of release_lock, run by EVAL as one Redis command:
\* if GET(key) == token then DEL(key) else 0
CompareAndDelete(owner, expiry, token) ==
  IF owner = token
  THEN [result |-> 1, owner |-> 0, expiry |-> -1]
  ELSE [result |-> 0, owner |-> owner, expiry |-> expiry]

\* A finally block that releases whether or not the lock was acquired
ReleasesAlways(acquired) == TRUE

\* finally: if acquired: self.release_lock()
ReleasesOnExit(acquired) == acquired

\* A call on the QueueBlocker h ends with the locals c: release_lock returns
\* released; lock() is left, by TimeoutError if the acquisition failed, by
\* the exception of the protected section if it raised one
EndCall(h, op, c) ==
  /\ lresult' =
       [owner |-> h, op |-> op,
        ok |-> IF op = "release_lock" THEN c.released ELSE c.acquired,
        raised |-> IF op # "lock" THEN ""
                   ELSE IF c.timed_out THEN "TimeoutError"
                   ELSE IF c.error THEN "error" ELSE "",
        call |-> c]
  /\ lpc' = [lpc EXCEPT ![h] = "idle"]
  /\ lcall' = [lcall EXCEPT ![h] = NoLockCall]

\* _acquire: the SET NX EX of an attempt.  On success acquire_lock returns
\* True and its locals are gone: lock() goes on to the protected section, a
\* direct caller holds the lock.  Otherwise the owner is read for the log
\* next.
TryAcquire(h, c) ==
  LET r == SetNx(lockOwner, lockExpiry, h, c.lock_ttl, clock)
      got == [NoLockCall EXCEPT !.scoped = c.scoped, !.acquired = TRUE,
                                !.entered = c.scoped, !.waited = c.waited]
  IN /\ lockOwner' = r.owner
     /\ lockExpiry' = r.expiry
     /\ IF ~r.acquired
        THEN /\ lpc' = [lpc EXCEPT ![h] = "peek"]
             /\ lcall' = [lcall EXCEPT ![h] = c]
             /\ lresult' = NoLockResult
        ELSE IF c.scoped
        THEN /\ lpc' = [lpc EXCEPT ![h] = "section"]
             /\ lcall' = [lcall EXCEPT ![h] = got]
             /\ lresult' = NoLockResult
        ELSE /\ lpc' = [lpc EXCEPT ![h] = "holding"]
             /\ lcall' = [lcall EXCEPT ![h] = got]
             /\ lresult' = [owner |-> h, op |-> "acquire_lock", ok |-> TRUE,
                            raised |-> "", call |-> got]

\* acquire_lock(lock_ttl, timeout), directly or from lock(): start_time is
\* taken and the first attempt is made
AcquireLock(h) ==
  /\ h \in workers
  /\ lpc[h] = "idle"
  /\ lcalls < CallBudget
  /\ lcalls' = lcalls + 1
  /\ \E scoped \in BOOLEAN, to \in LockTimeouts, ttl \in Leases :
       TryAcquire(h, [NoLockCall EXCEPT !.scoped = scoped, !.timeout = to,
                                        !.lock_ttl = ttl,
                                        !.start_time = clock])
  /\ UNCHANGED << clock, limiterVars >>

\* time.sleep(self.poll_interval) has returned: the next attempt
RetryLock(h) ==
  /\ lpc[h] = "sleep"
  /\ clock >= lcall[h].wake
  /\ TryAcquire(h, [lcall[h] EXCEPT !.wake = 0])
  /\ UNCHANGED << clock, limiterVars, lcalls >>

\* After a failed attempt: the GET of the owner for the log; then, with a
\* timeout that has elapsed, _acquire_with_wait returns False: acquire_lock
\* returns False, and lock() raises TimeoutError and leaves through its
\* finally block.  Otherwise the process sleeps poll_interval.
PeekStep(h) ==
  /\ lpc[h] = "peek"
  /\ LET c == lcall[h]
         elapsed == clock - c.start_time
     IN IF c.timeout # NoTimeout /\ elapsed >= c.timeout
        THEN IF ~c.scoped
             THEN EndCall(h, "acquire_lock", c)
             ELSE IF ReleasesOnExit(c.acquired)
             THEN /\ lpc' = [lpc EXCEPT ![h] = "release"]
                  /\ lcall' = [lcall EXCEPT ![h].timed_out = TRUE]
                  /\ lresult' = NoLockResult
             ELSE EndCall(h, "lock", [c EXCEPT !.timed_out = TRUE])
        ELSE /\ lpc' = [lpc EXCEPT ![h] = "sleep"]
             /\ lcall' = [lcall EXCEPT
                            ![h].wake = clock + DEFAULT_POLL_INTERVAL,
                            ![h].waited = (c.timeout = NoTimeout)]
             /\ lresult' = NoLockResult
  /\ UNCHANGED << clock, limiterVars, lockOwner, lockExpiry, lcalls >>

\* A protected section whose exception leaves lock() without the release
SectionEndsNoFinally(h) ==
  /\ lpc[h] = "section"
  /\ \E err \in BOOLEAN :
       IF err
       THEN EndCall(h, "lock", [lcall[h] EXCEPT !.error = TRUE])
       ELSE /\ lpc' = [lpc EXCEPT ![h] = "release"]
            /\ lcall' = [lcall EXCEPT ![h].error = FALSE]
            /\ lresult' = NoLockResult
  /\ UNCHANGED << clock, limiterVars, lockOwner, lockExpiry, lcalls >>

\* The protected section of lock() ends, normally or by an exception thrown
\* into the generator at the yield; the finally block runs either way
SectionEnds(h) ==
  /\ lpc[h] = "section"
  /\ \E err \in BOOLEAN :
       LET c == [lcall[h] EXCEPT !.error = err]
       IN IF ReleasesOnExit(c.acquired)
          THEN /\ lpc' = [lpc EXCEPT ![h] = "release"]
               /\ lcall' = [lcall EXCEPT ![h] = c]
               /\ lresult' = NoLockResult
          ELSE EndCall(h, "lock", c)
  /\ UNCHANGED << clock, limiterVars, lockOwner, lockExpiry, lcalls >>

\* release_lock: the EVAL of the script.  It is called from the finally block
\* of lock(), by a direct caller that holds the lock, or by a caller that
\* holds nothing.  If nothing was released the owner is read for the log
\* next.
ReleaseStep(h) ==
  /\ \/ lpc[h] \in { "release", "holding" } /\ UNCHANGED lcalls
     \/ /\ h \in workers
        /\ lpc[h] = "idle"
        /\ lcalls < CallBudget
        /\ lcalls' = lcalls + 1
  /\ LET r == CompareAndDelete(lockOwner, lockExpiry, h)
         c == [lcall[h] EXCEPT !.releases = @ + 1, !.released = r.result = 1]
     IN /\ lockOwner' = r.owner
        /\ lockExpiry' = r.expiry
        /\ IF c.released
           THEN EndCall(h, IF c.scoped THEN "lock" ELSE "release_lock", c)
           ELSE /\ lpc' = [lpc EXCEPT ![h] = "peek_release"]
                /\ lcall' = [lcall EXCEPT ![h] = c]
                /\ lresult' = NoLockResult
  /\ UNCHANGED << clock, limiterVars >>

\* release_lock after a script that released nothing: the GET of the owner
\* for the log, return False
PeekRelease(h) ==
  /\ lpc[h] = "peek_release"
  /\ EndCall(h, IF lcall[h].scoped THEN "lock" ELSE "release_lock", lcall[h])
  /\ UNCHANGED << clock, limiterVars, lockOwner, lockExpiry, lcalls >>

\* The process of a holder dies: it never calls release_lock
CrashHolder(h) ==
  /\ lpc[h] \in { "holding", "section" }
  /\ lpc' = [lpc EXCEPT ![h] = "crashed"]
  /\ lresult' = NoLockResult
  /\ UNCHANGED << clock, limiterVars, lockOwner, lockExpiry, lcall, lcalls >>

\* Time passes; Redis drops the lock key when its TTL has run out, and the
\* call that acquired it is marked as having outlived its lease.  The clock
\* goes on past LockEnd only while a record exists or a process sleeps.
LockTick ==
  /\ \/ clock < LockEnd
     \/ lockOwner # 0
     \/ \E h \in Procs : lpc[h] = "sleep" /\ lcall[h].wake > clock
  /\ clock' = clock + TickLength
  /\ IF lockExpiry # -1 /\ lockExpiry <= clock'
     THEN /\ lockOwner' = 0
          /\ lockExpiry' = -1
          /\ lcall' = [h \in Procs |->
                         IF h = lockOwner /\ lcall[h].acquired
                         THEN [lcall[h] EXCEPT !.expired = TRUE]
                         ELSE lcall[h]]
     ELSE UNCHANGED << lockOwner, lockExpiry, lcall >>
  /\ lresult' = NoLockResult
  /\ UNCHANGED << limiterVars, lpc, lcalls >>

NextLock ==
  \/ \E h \in Procs : AcquireLock(h)
  \/ \E h \in Procs : RetryLock(h)
  \/ \E h \in Procs : PeekStep(h)
  \/ \E h \in Procs : SectionEnds(h)
  \/ \E h \in Procs : ReleaseStep(h)
  \/ \E h \in Procs : PeekRelease(h)
  \/ \E h \in Procs : CrashHolder(h)
  \/ LockTick

SpecLock == InitLock /\ [][NextLock]_vars

\* acquire_lock and release_lock without their except clauses
StoreErrorUncaught == [value |-> FALSE, raised |-> "RedisError"]

\* except RedisError / except Exception in acquire_lock and release_lock: the
\* error is logged and the call returns False
StoreErrorCaught == [value |-> FALSE, raised |-> ""]

\* A Redis command of the QueueBlocker h raises RedisError.  The command may
\* have run on the server before its reply was lost (TimeoutError,
\* ConnectionError while reading), or not at all.  On the acquiring side:
\* the SET of a first or a later attempt, or the GET for the log;
\* acquire_lock returns False and lock() raises TimeoutError.  On the
\* releasing side: the EVAL of the script or the GET for the log;
\* release_lock returns False, and lock() is left as its section left it.
LockStoreFails(h) ==
  LET out == StoreErrorCaught
      Ends(op, c, raised) ==
        /\ lresult' = [owner |-> h, op |-> op, ok |-> out.value,
                       raised |-> raised,
                       call |-> [c EXCEPT !.store_error = TRUE]]
        /\ lpc' = [lpc EXCEPT ![h] = "idle"]
        /\ lcall' = [lcall EXCEPT ![h] = NoLockCall]
      FailsAcquiring(c, atSet) ==
        /\ \E applied \in BOOLEAN :
             LET r == IF applied /\ atSet
                      THEN SetNx(lockOwner, lockExpiry, h, c.lock_ttl, clock)
                      ELSE [owner |-> lockOwner, expiry |-> lockExpiry]
             IN lockOwner' = r.owner /\ lockExpiry' = r.expiry
        /\ IF c.scoped
           THEN Ends("lock", c, IF out.raised = "" THEN "TimeoutError"
                                ELSE out.raised)
           ELSE Ends("acquire_lock", c, out.raised)
      FailsReleasing(c, atEval) ==
        /\ \E applied \in BOOLEAN :
             LET r == IF applied /\ atEval
                      THEN CompareAndDelete(lockOwner, lockExpiry, h)
                      ELSE [owner |-> lockOwner, expiry |-> lockExpiry]
             IN lockOwner' = r.owner /\ lockExpiry' = r.expiry
        /\ LET d == IF atEval THEN [c EXCEPT !.releases = @ + 1] ELSE c
           IN IF c.scoped
              THEN Ends("lock", d, IF out.raised # "" THEN out.raised
                                   ELSE IF c.error THEN "error" ELSE "")
              ELSE Ends("release_lock", d, out.raised)
  IN /\ \/ /\ lpc[h] = "idle" /\ h \in workers /\ lcalls < CallBudget
           /\ lcalls' = lcalls + 1
           /\ \/ \E scoped \in BOOLEAN, to \in LockTimeouts, ttl \in Leases :
                   FailsAcquiring([NoLockCall EXCEPT !.scoped = scoped,
                                                     !.timeout = to,
                                                     !.lock_ttl = ttl,
                                                     !.start_time = clock],
                                  TRUE)
              \/ FailsReleasing(NoLockCall, TRUE)
        \/ /\ lpc[h] = "sleep" /\ clock >= lcall[h].wake
           /\ FailsAcquiring(lcall[h], TRUE)
           /\ UNCHANGED lcalls
        \/ /\ lpc[h] = "peek"
           /\ FailsAcquiring(lcall[h], FALSE)
           /\ UNCHANGED lcalls
        \/ /\ lpc[h] \in { "release", "holding" }
           /\ FailsReleasing(lcall[h], TRUE)
           /\ UNCHANGED lcalls
        \/ /\ lpc[h] = "peek_release"
           /\ FailsReleasing(lcall[h], FALSE)
           /\ UNCHANGED lcalls
     /\ UNCHANGED << clock, limiterVars >>

NextLockFault ==
  \/ NextLock
  \/ \E h \in Procs : LockStoreFails(h)

SpecLockFault == InitLock /\ [][NextLockFault]_vars

\* The processes are scheduled and time passes: a process that can take its
\* next attempt or the step after it takes it, and the clock moves on
SpecLockFair ==
  /\ SpecLock
  /\ WF_vars(LockTick)
  /\ \A h \in Procs : WF_vars(RetryLock(h)) /\ WF_vars(PeekStep(h))

----------------------------------------------------------------------------
(* CoingeckoClient._generate_safe_chunks_to_get_prices:                     *)
(* app/external_api/api_services/coingecko/client.py                        *)

\* The clients the generator is run for: the CoingeckoClient as it is, and
\* clients whose MAX_URL_LENGTH and price URL are short enough for ids of a
\* few characters to fill a URL
Clients ==
  { CoingeckoClient,
    [MAX_URL_LENGTH |-> 10, url |-> ""],
    [MAX_URL_LENGTH |-> 8, url |-> ""],
    [MAX_URL_LENGTH |-> 5, url |-> "?="] }

\* The ids the callers pass
IdPool == { "a", "bb", "ccc", "ffffff", "eeeeeeeeeeee" }

IdLists == UNION { [1..n -> IdPool] : n \in 0..MaxIds }

\* The generator is called with a list of ids: its locals before the loop
InitChunk ==
  /\ clock = LockStart
  /\ db = None
  /\ counts = [w \in PeriodSet |-> 0]
  /\ expires = [w \in PeriodSet |-> -1]
  /\ total = 0
  /\ cache = << >>
  /\ workers = {1}
  /\ offered = Timeouts
  /\ timer = [p \in Procs |-> NoTimer]
  /\ pc = [p \in Procs |-> "new"]
  /\ config = [p \in Procs |-> EmptyConfig]
  /\ now = [p \in Procs |-> 0]
  /\ idx = [p \in Procs |-> 1]
  /\ updated = [p \in Procs |-> FALSE]
  /\ current = [p \in Procs |-> NotRead]
  /\ wait_times = [p \in Procs |-> {}]
  /\ calls = 0
  /\ results = << >>
  /\ last = NoCall
  /\ report = NoReport
  /\ full = [p \in Procs |-> {}]
  /\ streak = [w \in PeriodSet |-> [start |-> 0, n |-> 0]]
  /\ deleted = ""
  /\ lastDel = [w \in PeriodSet |-> -1]
  /\ LockIdle
  /\ FetchIdle
  /\ SyncIdle
  /\ OwnLimiter
  /\ client \in Clients
  /\ ids \in IdLists
  /\ gpc = "run"
  /\ pos = 1
  /\ current_chunk = << >>
  /\ current_length = Len(client.url)
  /\ yielded = << >>

\* An addition that counts two separators for an id
addition_length_two(coin_id) == Len(coin_id) + 2

\* addition_length = len(coin_id) + 1: the id and its comma
addition_length(coin_id) == Len(coin_id) + 1

\* A new chunk whose length leaves out the id it starts with
SeedLengthWithoutId(url, coin_id) == Len(url)

\* current_length = len(url) + 1 + len(coin_id) of a new chunk
SeedLength(url, coin_id) == Len(url) + 1 + Len(coin_id)

\* A yield without the test of current_chunk
YieldsAlways(out, chunk) == Append(out, chunk)

\* if current_chunk: yield current_chunk
YieldChunk(out, chunk) == IF chunk # << >> THEN Append(out, chunk) ELSE out

\* A test that closes the chunk when the id would fill the URL exactly
FitsBelow(new_length, max_length) == new_length < max_length

\* if new_length <= self.MAX_URL_LENGTH
Fits(new_length, max_length) == new_length <= max_length

\* One pass of the loop 'for coin_id in ids'
ChunkStep ==
  /\ gpc = "run"
  /\ pos <= Len(ids)
  /\ LET coin_id == ids[pos]
         new_length == current_length + addition_length(coin_id)
     IN IF Fits(new_length, client.MAX_URL_LENGTH)
        THEN /\ current_chunk' = Append(current_chunk, coin_id)
             /\ current_length' = new_length
             /\ UNCHANGED yielded
        ELSE /\ yielded' = YieldChunk(yielded, current_chunk)
             /\ current_chunk' = << coin_id >>
             /\ current_length' = SeedLength(client.url, coin_id)
  /\ pos' = pos + 1
  /\ UNCHANGED << clock, store, cache, timer, pc, config, locals, calls,
                  results, last, report, streak, deleted, lastDel, db,
                  workers, offered, lockVars, syncVars, limiter_of,
                  client, ids, gpc, fetchVars >>

\* A generator that ends without its last chunk
ChunkEndDropsLast ==
  /\ gpc = "run"
  /\ pos > Len(ids)
  /\ gpc' = "done"
  /\ UNCHANGED << clock, store, cache, timer, pc, config, locals, calls,
                  results, last, report, streak, deleted, lastDel, db,
                  workers, offered, lockVars, syncVars, limiter_of,
                  client, ids, pos,
                  current_chunk, current_length, yielded, fetchVars >>

\* After the loop: the last chunk is yielded and the generator is exhausted
ChunkEnd ==
  /\ gpc = "run"
  /\ pos > Len(ids)
  /\ yielded' = YieldChunk(yielded, current_chunk)
  /\ gpc' = "done"
  /\ UNCHANGED << clock, store, cache, timer, pc, config, locals, calls,
                  results, last, report, streak, deleted, lastDel, db,
                  workers, offered, lockVars, syncVars, limiter_of,
                  client, ids, pos,
                  current_chunk, current_length, fetchVars >>

\* Sum(lens) of a list of ids: sum(len(ticker) for ticker in ticker_ids)
RECURSIVE SumLen(_)
SumLen(ticker_ids) ==
  IF ticker_ids = << >> THEN 0
  ELSE Len(Head(ticker_ids)) + SumLen(Tail(ticker_ids))

\* avg_id_length + 1 is a float: the pairs << sum, n >> for which the double
\* nearest to sum / n, plus 1.0, is above (sum + n) / n.  IEEE 754 binary64,
\* round to nearest even; n up to 5, ids of up to 12 characters.  For the
\* other pairs the double is exact or below.
AvgRoundedUp ==
  { << 5, 3 >>, << 7, 3 >>, << 10, 3 >>, << 14, 3 >>, << 17, 3 >>,
    << 20, 3 >>, << 23, 3 >>, << 25, 3 >>, << 28, 3 >>, << 31, 3 >>,
    << 34, 3 >>, << 3, 5 >>, << 4, 5 >>, << 6, 5 >>, << 8, 5 >>,
    << 11, 5 >>, << 13, 5 >>, << 16, 5 >>, << 17, 5 >>, << 21, 5 >>,
    << 22, 5 >>, << 26, 5 >>, << 27, 5 >>, << 31, 5 >>, << 32, 5 >>,
    << 37, 5 >>, << 39, 5 >>, << 42, 5 >>, << 44, 5 >>, << 47, 5 >>,
    << 49, 5 >>, << 52, 5 >>, << 54, 5 >>, << 57, 5 >>, << 59, 5 >> }

\* (self.MAX_URL_LENGTH - base_length) // (avg_id_length + 1): the floor of
\* the quotient of the two doubles.  It is the floor of the exact quotient
\* room * n / (sum + n), but one less when that quotient is a whole number
\* and the divisor was rounded up.
FloorDivByAvg(room, sum, n) ==
  LET q == (room * n) \div (sum + n)
  IN IF room > 0 /\ (room * n) % (sum + n) = 0 /\ << sum, n >> \in AvgRoundedUp
     THEN q - 1
     ELSE q

\* _calculate_safe_chunks_to_get_prices: the count of chunks estimated from
\* the average length of the ids
_calculate_safe_chunks_to_get_prices(c, ticker_ids) ==
  IF ticker_ids = << >> THEN 0
  ELSE LET base_length == Len(c.url)
           n == Len(ticker_ids)
           max_ids_per_chunk ==
             Max({ 1, FloorDivByAvg(c.MAX_URL_LENGTH - base_length,
                                    SumLen(ticker_ids), n) })
       IN (n + max_ids_per_chunk - 1) \div max_ids_per_chunk

NextChunk ==
  \/ ChunkStep
  \/ ChunkEnd

SpecChunk == InitChunk /\ [][NextChunk]_vars

----------------------------------------------------------------------------
(* The price update: SmartPriceUpdater.__call__                             *)
(* (app/external_api/methods/smart_price_update.py), CoingeckoClient        *)
(* .get_prices and ExternalApiClientBase.make_request                       *)
(* (app/external_api/api_services/base/client.py).  One worker process runs *)
(* it; the clock stands still during the run.                               *)

FetchStart == DateTime(2024, 12, 1, 23, 58, 10)
FetchLastReset == DateTime(2024, 12, 1, 23, 58, 0)

\* The service rows of the price provider: a minute limit of 2, no minute
\* limit
FetchLimits == { Limits(2, 100, 0, 0), Limits(0, 100, 0, 0) }

\* with self.rate_limiter.limit_context(timeout=30)
LimitContextTimeout == 30

\* The clients and the lists of ids of the price updates explored: the real
\* client, and short URLs that make several chunks of a few ids
FetchClients ==
  { CoingeckoClient,
    [MAX_URL_LENGTH |-> 8, url |-> ""],
    [MAX_URL_LENGTH |-> 5, url |-> "?="] }

FetchIdPool == { "a", "bb", "ffffff" }

FetchIdLists == UNION { [1..n -> FetchIdPool] : n \in 0..MaxIds }

\* The ids the strategy returned are at hand; the service row exists or not;
\* no limiter has been built; the counters are empty
InitFetch ==
  /\ clock = FetchStart
  /\ \/ db = None
     \/ \E l \in FetchLimits :
          db = [limits |-> l, last_reset |-> [w \in PeriodSet |-> FetchLastReset]]
  /\ counts = [w \in PeriodSet |-> 0]
  /\ expires = [w \in PeriodSet |-> -1]
  /\ total = 0
  /\ cache = << >>
  /\ workers = {1}
  /\ offered = Timeouts
  /\ timer = [p \in Procs |-> NoTimer]
  /\ pc = [p \in Procs |-> "new"]
  /\ config = [p \in Procs |-> EmptyConfig]
  /\ now = [p \in Procs |-> 0]
  /\ idx = [p \in Procs |-> 1]
  /\ updated = [p \in Procs |-> FALSE]
  /\ current = [p \in Procs |-> NotRead]
  /\ wait_times = [p \in Procs |-> {}]
  /\ calls = 0
  /\ results = << >>
  /\ last = NoCall
  /\ report = NoReport
  /\ full = [p \in Procs |-> {}]
  /\ streak = [w \in PeriodSet |-> [start |-> 0, n |-> 0]]
  /\ deleted = ""
  /\ lastDel = [w \in PeriodSet |-> -1]
  /\ LockIdle
  /\ client \in FetchClients
  /\ ids \in FetchIdLists
  /\ gpc = "idle"
  /\ pos = 1
  /\ current_chunk = << >>
  /\ current_length = 0
  /\ yielded = << >>
  /\ FetchIdle
  /\ SyncIdle
  /\ OwnLimiter

\* What the fetch leaves alone
fetchFrame == << clock, timer, locals, calls, results, last, report, streak,
                 deleted, lastDel, db, workers, offered, lockVars,
                 syncVars, limiter_of >>

\* __call__ up to the call of get_prices: without ids it returns an error
\* report; otherwise get_prices makes its generator of chunks
BeginUpdate ==
  /\ fpc = "idle"
  /\ IF ids = << >>
     THEN /\ freport' = [status |-> "error", message |-> "no tickers"]
          /\ fpc' = "done"
          /\ UNCHANGED << gpc, current_length >>
     ELSE /\ fpc' = "fetch"
          /\ gpc' = "run"
          /\ current_length' = Len(client.url)
          /\ UNCHANGED freport
  /\ UNCHANGED << fetchFrame, store, cache, pc, config, client, ids, pos,
                  current_chunk, yielded, chunk_no, all_results,
                  failed_chunks, price_list, sent, logs >>

Ids(chunk) == { chunk[k] : k \in 1..Len(chunk) }

\* What the provider answers for a chunk: a price_info for every id, none
\* for the first id, or a price_info without a usd price for the first id
Responses(chunk) ==
  { [id \in Ids(chunk) |-> "usd"],
    [id \in Ids(chunk) \ { chunk[1] } |-> "usd"],
    [id \in Ids(chunk) |-> IF id = chunk[1] THEN "None" ELSE "usd"] }

\* The ways session.request ends: a response that is ok, a response with an
\* error status, an exception of the transport
Transports == { "ok", "status", "exception" }

\* A limit_context that yields whether or not acquire returned True
LimitContextNeverRaises(acquired) == FALSE

\* limit_context: if not acquired: raise TimeoutError
LimitContextRaises(acquired) == ~acquired

\* self.log_request(...): the entry appended to self.logs
LogEntry(status_code, was_successful) ==
  [status_code |-> status_code, was_successful |-> was_successful]

\* make_request after limit_context has yielded: the call of
\* session.request and what follows it.
\*  - a response that is ok: one entry is logged, response.json() returned;
\*  - a response with an error status: its entry is logged, raise_for_status
\*    raises HTTPError, and 'except RequestException' logs a second entry
\*    before it re-raises;
\*  - session.request raises: the 'except Exception: pass' of limit_context
\*    swallows the exception inside the with block, so 'response' is never
\*    bound and response.status_code raises UnboundLocalError, which is no
\*    RequestException: nothing is logged.
Transport(transport, data) ==
  CASE transport = "ok" ->
         [error |-> "", data |-> data,
          logs |-> << LogEntry("200", TRUE) >>]
    [] transport = "status" ->
         [error |-> "HTTPError", data |-> << >>,
          logs |-> << LogEntry("500", FALSE), LogEntry("None", FALSE) >>]
    [] OTHER ->
         [error |-> "UnboundLocalError", data |-> << >>, logs |-> << >>]

\* make_request for a chunk, as its caller sees it: the data, or the class of
\* the exception that leaves it.
\*  - the rate_limiter property builds the RateLimiter when there is none;
\*    without a service row its constructor raises ValueError;
\*  - limit_context(30) raises TimeoutError when acquire returns False: here
\*    a window is full and its reset is more than 30 s away;
\*  - otherwise session.request is called.
\* Its effects on Redis: the configuration written by the constructor, the
\* increments of a granted admission.
MakeRequest(p, chunk, transport, data) ==
  LET built == pc[p] # "new"
      cfg == IF built THEN config[p] ELSE ConfigFromDb(db)
      sat == { w \in PeriodSet :
                 Enforced(cfg.limits[w]) /\ Saturated(counts[w], cfg.limits[w]) }
      wait_time == Max({ _get_next_reset(w, clock) - clock : w \in sat })
      acquired == ~(sat # {} /\ GivesUp(LimitContextTimeout, clock, wait_time))
      inc == IF acquired
             THEN PipelineExecute(counts, expires, total, cfg.limits, clock)
             ELSE [counts |-> counts, expires |-> expires, total |-> total]
      t == Transport(transport, data)
  IN IF ~built /\ ~ServiceFound(db)
     THEN [error |-> "ValueError", data |-> << >>, pc |-> "new",
           config |-> config[p], cache |-> cache,
           counts |-> counts, expires |-> expires, total |-> total,
           sent |-> 0, logs |-> << >>]
     ELSE IF LimitContextRaises(acquired)
     THEN [error |-> "TimeoutError", data |-> << >>, pc |-> "idle",
           config |-> cfg,
           cache |-> IF built THEN cache ELSE << json_dumps(cfg) >>,
           counts |-> counts, expires |-> expires, total |-> total,
           sent |-> 0, logs |-> << >>]
     ELSE [error |-> t.error, data |-> t.data,
           pc |-> "idle", config |-> cfg,
           cache |-> IF built THEN cache ELSE << json_dumps(cfg) >>,
           counts |-> inc.counts, expires |-> inc.expires,
           total |-> inc.total, sent |-> 1, logs |-> t.logs]

\* One pass of the loop of get_prices over the chunks of the generator:
\* make_request, then all_results.update(data); 'except Exception' records
\* every exception of the chunk in failed_chunks and the loop goes on
FetchChunk ==
  /\ fpc = "fetch"
  /\ chunk_no < Len(yielded)
  /\ \E p \in workers, transport \in Transports :
       LET i == chunk_no + 1
           chunk == yielded[i]
       IN \E data \in Responses(chunk) :
            LET r == MakeRequest(p, chunk, transport, data)
            IN /\ \A w \in PeriodSet :
                    ~RolloverPeriod(r.config, w, clock).due
               /\ pc' = [pc EXCEPT ![p] = r.pc]
               /\ config' = [config EXCEPT ![p] = r.config]
               /\ cache' = r.cache
               /\ counts' = r.counts
               /\ expires' = r.expires
               /\ total' = r.total
               /\ chunk_no' = i
               /\ sent' = sent + r.sent
               /\ logs' = logs \o r.logs
               /\ IF r.error = ""
                  THEN /\ all_results' = r.data @@ all_results
                       /\ UNCHANGED << failed_chunks, price_list, fpc >>
                  ELSE /\ failed_chunks' =
                            Append(failed_chunks,
                                   [chunk |-> i, ids |-> chunk,
                                    error |-> r.error])
                       /\ UNCHANGED << all_results, price_list, fpc >>
  /\ UNCHANGED << fetchFrame, chunkVars, freport >>

\* get_prices after its loop: the price_list of the ids that came with a usd
\* price
ReturnPrices ==
  /\ fpc = "fetch"
  /\ gpc = "done"
  /\ chunk_no = Len(yielded)
  /\ price_list' = [ended |-> TRUE, raised |-> "",
                    prices |-> { id \in DOMAIN all_results :
                                   all_results[id] # "None" }]
  /\ fpc' = "save"
  /\ UNCHANGED << fetchFrame, store, cache, pc, config, chunkVars, chunk_no,
                  all_results, failed_chunks, freport, sent, logs >>

\* The dict __call__ returns after save_prices
Report(requested, received, updated_count) ==
  [status |-> "success",
   data |-> [requested_count |-> requested, received_count |-> received,
             updated_count |-> updated_count]]

\* The rest of __call__: save_prices(price_list) and the report.  save_prices
\* returns no 'updated' for an empty price_list or after a database error,
\* and the row count of its UPDATEs otherwise.  An exception that left
\* get_prices ends __call__ with an error report.
SavePrices ==
  /\ fpc = "save"
  /\ IF price_list.raised # ""
     THEN freport' = [status |-> "error", message |-> price_list.raised]
     ELSE \E updated_count \in { 0, Cardinality(price_list.prices) } :
            freport' = Report(Len(ids), Cardinality(price_list.prices),
                              updated_count)
  /\ fpc' = "done"
  /\ UNCHANGED << fetchFrame, store, cache, pc, config, chunkVars, chunk_no,
                  all_results, failed_chunks, price_list, sent, logs >>

\* The generator runs when the loop of get_prices asks for its next chunk
NextFetch ==
  \/ BeginUpdate
  \/ fpc = "fetch" /\ chunk_no = Len(yielded) /\ ChunkStep
  \/ fpc = "fetch" /\ chunk_no = Len(yielded) /\ ChunkEnd
  \/ FetchChunk
  \/ ReturnPrices
  \/ SavePrices

SpecFetch == InitFetch /\ [][NextFetch]_vars

----------------------------------------------------------------------------
(* Properties *)

\* The next calendar boundary of a window after the instant t, from the
\* calendar alone: the least multiple of the window's length after t, or the
\* first instant of the next month.
NextBoundary(w, t) ==
  CASE w = "minute" -> ((t \div 60) + 1) * 60
    [] w = "hour" -> ((t \div 3600) + 1) * 3600
    [] w = "day" -> ((t \div 86400) + 1) * 86400
    [] w = "month" ->
         LET later == { x \in { MonthStarts[k] : k \in 1..Len(EraMonths) } :
                          x > t }
         IN CHOOSE x \in later : \A y \in later : x <= y

\* Process p takes a step of its admission test
ReadStepOf(p) ==
  /\ pc[p] = "read"
  /\ << pc[p], idx[p] >> # << pc'[p], idx'[p] >>

\* Process p returns from acquire in this step
ReturnOf(p) == Len(results') > Len(results) /\ last'.proc = p

\* The windows of positive limit that a finished call read at or over the limit
SaturatedRead(call) ==
  { w \in PeriodSet : db.limits[w] > 0 /\ call.cur[w] >= db.limits[w] }

RECURSIVE CountOk(_)
CountOk(r) == IF r = << >> THEN 0
              ELSE (IF Head(r).ok THEN 1 ELSE 0) + CountOk(Tail(r))

\* The number of acquire calls that have returned true
NumGranted == CountOk(results)

\* C1: the counter of a window with a positive limit never exceeds the limit,
\* whatever the number of processes calling acquire.
C1_CounterWithinLimit ==
  \A w \in PeriodSet : db.limits[w] > 0 => counts[w] <= db.limits[w]

\* C2: an attempt that read a positive-limit window at or over its limit
\* applies no increment: the steps of the admission test leave every window
\* counter and the lifetime total as they are, and a process gets to the
\* increment batch only if no count it read was at or over the limit.
C2_DeniedAppliesNoIncrement ==
  /\ [](\A p \in Procs : pc[p] = "grant" =>
          \A w \in PeriodSet :
            db.limits[w] > 0 => current[p][w] < db.limits[w])
  /\ [][\A p \in Procs :
          ReadStepOf(p) => (counts' = counts /\ total' = total)]_vars

\* C2 witness: an attempt was denied while counters and total were not zero
C2_Witness ==
  /\ last.proc # 0 /\ ~last.ok
  /\ total > 0
  /\ \E w \in PeriodSet : counts[w] > 0 /\ db.limits[w] > 0

\* C3: a call that begins after exactly L grants of a window of limit L, all
\* in the current calendar window and started from a count of 0, and that
\* runs without the clock advancing, returns false.
C3_NextAcquireDenied ==
  (last.proc # 0 /\ last.full # {} /\ last.end = last.now) => ~last.ok

\* C4: a call is denied exactly when it read a positive-limit window at or
\* over its limit, and the reported wait is the longest of the times from now
\* to the next calendar boundary of those windows.
C4_WaitIsLongestBoundary ==
  last.proc # 0 =>
    /\ last.ok <=> SaturatedRead(last) = {}
    /\ ~last.ok =>
         last.wait = Max({ NextBoundary(w, last.now) - last.now :
                             w \in SaturatedRead(last) })

\* C4 witness: a denial with two saturated windows whose boundaries differ
C4_Witness ==
  /\ last.proc # 0 /\ ~last.ok
  /\ \E v, w \in SaturatedRead(last) :
       NextBoundary(v, last.now) < NextBoundary(w, last.now)

\* C5: a granted admission adds exactly 1 to the counter of every
\* positive-limit window and to the lifetime total in one step, and no step
\* increments only some of them.
C5_GrantIsOneBatch ==
  [][(\/ \E p \in Procs : ReturnOf(p) /\ last'.ok
      \/ total' # total
      \/ \E w \in PeriodSet : counts'[w] > counts[w])
     => /\ \E p \in Procs : ReturnOf(p) /\ last'.ok
        /\ total' = total + 1
        /\ \A w \in PeriodSet :
             counts'[w] = counts[w] + (IF db.limits[w] > 0 THEN 1 ELSE 0)]_vars

\* C5 witness: a grant with several windows enforced has been applied
C5_Witness ==
  /\ last.proc # 0 /\ last.ok
  /\ Cardinality({ w \in PeriodSet : db.limits[w] > 0 /\ counts[w] > 0 }) >= 3

\* C6: a window whose limit is <= 0 is not enforced: every denial comes with
\* a positive-limit window read at or over its limit, and no step increments
\* the counter of a window whose limit is <= 0.
C6_NonPositiveLimitNotEnforced ==
  /\ []((last.proc # 0 /\ ~last.ok) => SaturatedRead(last) # {})
  /\ [][\A w \in PeriodSet :
          db.limits[w] <= 0 => counts'[w] <= counts[w]]_vars

\* C6 witness: a call was granted while a window of limit <= 0 held a count
C6_Witness ==
  /\ last.proc # 0 /\ last.ok
  /\ \E w \in PeriodSet : db.limits[w] <= 0 /\ counts[w] > 0

\* C7: once a window's counter has been reset, no rollover check of any
\* process deletes it again before the next calendar boundary of that window.
C7_OneResetPerWindow ==
  [][\A w \in PeriodSet :
       deleted' = w =>
         (lastDel[w] = -1 \/ NextBoundary(w, lastDel[w]) <= lastDel'[w])]_vars

\* C8: a second rollover check with the same now is a no-op: once the check
\* of an attempt is through, no period is due for that now, so a second call
\* deletes no counter, changes no reset time and does not rewrite the cache.
C8_RolloverIdempotent ==
  \A p \in Procs :
    pc[p] \in { "persist", "read", "grant" } =>
      \A j \in 1..Len(Periods) :
        LET r == RolloverPeriod(config[p], Periods[j], now[p])
        IN ~r.due /\ r.cfg = config[p]

\* C8 witness: a process is through a rollover check that reset some window
C8_Witness ==
  \E p \in Procs : pc[p] = "read" /\ updated[p] /\ lastDel["hour"] = now[p]

\* C9: the lifetime total is never decreased or reset, and equals the number
\* of admissions granted so far.
C9_TotalCountsGrants ==
  /\ [](total = NumGranted)
  /\ [][total' >= total]_vars

\* C9 witness: grants, then a rollover that deleted window counters
C9_Witness ==
  /\ total >= 2
  /\ \A w \in PeriodSet : lastDel[w] # -1
  /\ \A w \in PeriodSet : counts[w] < total

SameMinute(t, u) == NextBoundary("minute", t) = NextBoundary("minute", u)

TrueTrueFalse(r) ==
  /\ Len(r) >= 3
  /\ r[1].ok /\ r[2].ok /\ ~r[3].ok
  /\ SameMinute(r[1].now, r[2].now) /\ SameMinute(r[1].now, r[3].now)

\* C10: with minute-limit 2 and hour-limit 100, a single worker and empty
\* counters, three calls within one minute return true, true, false, and a
\* fourth call after the minute boundary returns true.
C10_Scenario ==
  (workers = {1} /\ db.limits = Limits(2, 100, 0, 0)) =>
    LET r == results IN
    /\ (Len(r) = 3 /\ SameMinute(r[1].now, clock)) => TrueTrueFalse(r)
    /\ (Len(r) >= 4 /\ TrueTrueFalse(r) /\ r[4].now >= NextBoundary("minute", r[1].now))
         => r[4].ok

\* C10 witness: the four calls of the scenario have returned
C10_Witness ==
  /\ workers = {1} /\ db.limits = Limits(2, 100, 0, 0)
  /\ Len(results) = 4 /\ TrueTrueFalse(results)
  /\ results[4].now = TimeTable[2] /\ results[4].ok

\* C11: a call of acquire during which a Redis command fails ends by returning
\* false: it never ends with the exception reaching the caller (and never
\* returns true).
C11_StoreFailureDenies ==
  last.proc # 0 => ~last.raised

\* Process p leaves a step of its construction
LoadStepOf(p, at) == pc[p] = at /\ pc'[p] # at

\* C12: constructing a limiter when the configuration key holds no
\* configuration and the database has no service row fails: the process ends
\* without a limiter (no configuration, no later step), and the step writes
\* nothing to Redis.
C12_NoServiceNoLimiter ==
  /\ [](\A p \in Procs : pc[p] = "failed" => config[p] = EmptyConfig)
  /\ [][\A p \in Procs :
          /\ (LoadStepOf(p, "load_db") /\ db = None) =>
                (pc'[p] = "failed" /\ cache' = cache /\ UNCHANGED store)
          /\ pc[p] = "failed" => pc'[p] = "failed"]_vars

\* C12 witness: a construction failed for want of a service row, the
\* configuration key holding nothing or no JSON
C12_Witness ==
  /\ db = None
  /\ cache \in { << >>, << NotJson >> }
  /\ \E p \in Procs : pc[p] = "failed"

\* The configuration key holds a configuration of the right shape
CachedWellFormed ==
  /\ cache # << >>
  /\ cache[1].kind = "json"
  /\ HasConfigKeys(cache[1].value)

\* C13: a well-formed cached configuration is used without reading the
\* database; with the key absent or its content malformed in any way, the
\* construction goes on to the database, and with a service row there it
\* ends with the row's configuration, written back to the key.
C13_ConfigResolution ==
  [][\A p \in Procs :
       /\ LoadStepOf(p, "new") =>
            IF CachedWellFormed
            THEN /\ pc'[p] = "idle"
                 /\ config'[p] = cache[1].value
                 /\ cache' = cache
            ELSE pc'[p] = "load_db"
       /\ (LoadStepOf(p, "load_db") /\ db # None) =>
            /\ pc'[p] = "idle"
            /\ config'[p] = ConfigFromDb(db)
            /\ cache' = << json_dumps(ConfigFromDb(db)) >>]_vars

\* The wait a denied attempt of p reports, from the counts it has read and
\* the count its last GET reads in this step
ReportedWait(p) ==
  LET w == Periods[idx[p]]
      read == [current[p] EXCEPT ![w] = counts[w]]
      sat == { v \in PeriodSet : db.limits[v] > 0 /\ read[v] >= db.limits[v] }
  IN Max({ NextBoundary(v, now[p]) - now[p] : v \in sat })

\* C14 as stated: a call with a timeout that ends in a denial ends only once
\* its deadline is reached (until then it sleeps and retries).
C14_DeniedOnlyAtDeadline ==
  (last.proc # 0 /\ ~last.ok /\ ~last.raised /\ last.timeout # NoTimeout) =>
    last.end >= last.start + last.timeout

\* C14 amended: without a timeout a denied call returns false after one
\* attempt, without a sleep.  With a timeout, a denied attempt ends the call
\* with false exactly when the reported wait is longer than the time remaining
\* or no time remains; otherwise the call sleeps
\* min(reported wait, 1s, time remaining), which ends no later than the
\* deadline, and after the sleep a new attempt begins.
C14_DenialBackoff ==
  /\ []((last.proc # 0 /\ ~last.ok /\ ~last.raised) =>
          IF last.timeout = NoTimeout
          THEN last.sleeps = 0 /\ last.now = last.start
          ELSE LET remaining == last.timeout - (last.end - last.start)
               IN last.wait > remaining \/ remaining <= 0)
  /\ [][\A p \in Procs :
          /\ (pc[p] = "read" /\ pc'[p] = "sleep") =>
               LET to == timer'[p].timeout
                   remaining == to - (clock - timer'[p].start_time)
                   wait == ReportedWait(p)
               IN /\ to # NoTimeout
                  /\ wait <= remaining /\ remaining > 0
                  /\ timer'[p].wake - clock = Min3(wait, 1, remaining)
                  /\ timer'[p].wake <= timer'[p].start_time + to
          /\ (pc[p] = "sleep" /\ pc'[p] # "sleep") =>
               /\ clock >= timer[p].wake
               /\ pc'[p] \in { "rollover", "read", "grant" }
               /\ now'[p] = clock]_vars

\* C14 witness: a call with a timeout was granted after it slept twice, and
\* its last sleep ended at its deadline
C14_Witness ==
  /\ last.proc # 0 /\ last.ok
  /\ last.sleeps = 2
  /\ last.now = last.start + last.timeout

\* Process p takes a step of get_usage
UsageStepOf(p) ==
  \/ pc'[p] = "usage" /\ idx'[p] # idx[p]
  \/ pc[p] = "usage" /\ pc'[p] = "idle"

\* C15: get_usage mutates nothing: its steps leave the window counters, their
\* TTLs, the lifetime total, the cached configuration and every limiter's
\* configuration as they are; each step reads the current count of its
\* window, and the result gives for each window the count read, the
\* configured limit and remaining = max(0, limit - used).
C15_GetUsageReadsOnly ==
  /\ [](report # NoReport =>
          \A w \in PeriodSet :
            LET u == report.usage[w]
            IN /\ u.limit = db.limits[w]
               /\ u.remaining = (IF u.limit > u.used THEN u.limit - u.used
                                  ELSE 0))
  /\ [][\A p \in Procs :
          UsageStepOf(p) =>
            /\ UNCHANGED << counts, expires, total, cache, config >>
            /\ LET w == Periods[idx[p]]
               IN counts[w] = (IF report' # NoReport
                               THEN report'.usage[w].used
                               ELSE current'[p][w])]_vars

\* C15 witness: get_usage returned while counters held requests, with a
\* window over its limit and a window under it
C15_Witness ==
  /\ report # NoReport
  /\ total > 0
  /\ \E w \in PeriodSet : report.usage[w].used > report.usage[w].limit
  /\ \E w \in PeriodSet :
       report.usage[w].used > 0 /\ report.usage[w].remaining > 0

\* The QueueBlocker h is between a successful acquire_lock and the end of its
\* own release_lock
Holding(h) ==
  /\ lcall[h].acquired
  /\ lpc[h] \in { "holding", "section", "release", "peek_release" }

\* C16 as stated: at no time are two QueueBlockers both between a successful
\* acquire_lock and their own release_lock.
C16_NoTwoBetweenAcquireAndRelease ==
  \A a, b \in Procs : (Holding(a) /\ Holding(b)) => a = b

\* C16 amended: the lock record names one owner, and a QueueBlocker that is
\* between a successful acquire_lock and its own release_lock, and whose lease
\* has not run out, is that owner; so two QueueBlockers are both between
\* acquire and release only if the lease of one of them has run out.  While
\* a lease runs, no other QueueBlocker's attempt succeeds.
C16_OneOwnerPerLease ==
  /\ [](\A a \in Procs :
          (Holding(a) /\ ~lcall[a].expired /\ lpc[a] # "peek_release") =>
            lockOwner = a)
  /\ [](\A a, b \in Procs :
          (Holding(a) /\ Holding(b) /\ a # b) =>
            (lcall[a].expired \/ lcall[b].expired))
  /\ [][\A h \in Procs :
          (~lcall[h].acquired /\ lcall'[h].acquired) =>
            (lockOwner = 0 /\ lockOwner' = h /\ lockExpiry' > clock)]_vars

\* C16 witness: two QueueBlockers are between acquire and release; the lease
\* of one has run out and the record names the other
C16_Witness ==
  \E a, b \in Procs :
    /\ a # b /\ Holding(a) /\ Holding(b)
    /\ lcall[a].expired /\ lockOwner = b

\* The QueueBlocker h runs the script of release_lock in this step
ReleaseStepOf(h) == lcall'[h].releases > lcall[h].releases \/
                    (lresult'.owner = h /\ lresult'.call.releases >
                                            lcall[h].releases)

\* C17: a release_lock by a QueueBlocker whose token is not the one stored
\* leaves the record (value and expiry) as it is and returns false; the
\* record of an owner goes away only by the script of that owner or by its
\* expiry, whatever the interleaving.
C17_NonOwnerReleaseKeepsRecord ==
  /\ []((lresult.owner # 0 /\ lresult.call.releases > 0) =>
          (lresult.call.released <=>
             (lresult.call.acquired /\ ~lresult.call.expired)))
  /\ []((lresult.op = "release_lock") => lresult.ok = lresult.call.released)
  /\ [][\A h \in Procs :
          (ReleaseStepOf(h) /\ lockOwner # h) =>
            (lockOwner' = lockOwner /\ lockExpiry' = lockExpiry)]_vars
  /\ [][(lockOwner # 0 /\ lockOwner' # lockOwner) =>
          \/ ReleaseStepOf(lockOwner) /\ lockOwner' = 0
          \/ clock' >= lockExpiry /\ lockOwner' = 0]_vars

\* C17 witness: release_lock returned false to a holder whose lease had run
\* out, while the record named the QueueBlocker that acquired after it
C17_Witness ==
  /\ lresult.op = "release_lock" /\ ~lresult.ok
  /\ lresult.call.acquired /\ lresult.call.expired
  /\ lockOwner # 0 /\ lockOwner # lresult.owner

\* C18: when the acquisition of lock() succeeded, release_lock has run
\* exactly once when lock() is left, on the normal and on the error exit, and
\* lock() is left by the exception of the protected section exactly when the
\* section raised one.
C18_ScopedReleaseOnEveryExit ==
  /\ []((lresult.op = "lock" /\ lresult.call.acquired) =>
          /\ lresult.call.entered
          /\ lresult.call.releases = 1
          /\ lresult.raised = (IF lresult.call.error THEN "error" ELSE ""))
  /\ [][\A h \in Procs :
          (lpc[h] = "section" /\ lpc'[h] # "section") =>
            lpc'[h] \in { "release", "crashed" }]_vars

\* C18 witness: lock() was left by the exception of its protected section,
\* after a release that deleted the record
C18_Witness ==
  /\ lresult.op = "lock" /\ lresult.call.acquired
  /\ lresult.call.error /\ lresult.call.released

\* C19: when the acquisition of lock() fails (its timeout has elapsed at a
\* failed attempt), lock() raises TimeoutError, the protected section has not
\* run and release_lock has not been called: a lock() that has not acquired
\* never gets to its protected section or to a release.
C19_ScopedTimeout ==
  /\ []((lresult.op = "lock" /\ ~lresult.call.acquired) =>
          /\ lresult.raised = "TimeoutError"
          /\ ~lresult.call.entered
          /\ lresult.call.releases = 0)
  /\ [][\A h \in Procs :
          (lcall[h].scoped /\ ~lcall[h].acquired) =>
            (lpc'[h] \notin { "section", "release" }
               \/ lcall'[h].acquired)]_vars

\* C19 witness: lock() raised TimeoutError once its timeout had elapsed,
\* after it had slept a poll interval while another QueueBlocker owned the
\* record
C19_Witness ==
  /\ lresult.op = "lock" /\ lresult.raised = "TimeoutError"
  /\ lresult.call.timeout > 0
  /\ clock - lresult.call.start_time >= lresult.call.timeout
  /\ lockOwner # 0

\* The QueueBlocker h waits in acquire_lock without a timeout
WaitsForever(h) ==
  /\ lpc[h] \in { "peek", "sleep" }
  /\ lcall[h].timeout = NoTimeout

\* C20: every lock record has a lease TTL from the step that creates it, and
\* a QueueBlocker that waits in acquire_lock without a timeout acquires the
\* lock in the end, also when the holder never calls release_lock.
C20_CrashedHolderNoDeadlock ==
  /\ [](lockOwner # 0 => lockExpiry > clock)
  /\ \A h \in Procs : WaitsForever(h) ~> lcall[h].acquired

\* C20 witness: a QueueBlocker that slept in acquire_lock without a timeout
\* holds the lock that a crashed process had held until its lease ran out
C20_Witness ==
  \E a, b \in Procs :
    /\ lpc[a] = "crashed" /\ lcall[a].expired
    /\ lockOwner = b /\ lpc[b] \in { "holding", "section" }
    /\ lcall[b].waited

\* C21: with a timeout T, acquire_lock makes no acquisition attempt, and
\* reports no success, later than T after the call started: every attempt
\* that follows a sleep comes no later than start_time + T.
C21_NoAttemptAfterTimeout ==
  [][\A h \in Procs :
       (lpc[h] = "sleep" /\ lpc'[h] # "sleep"
          /\ lcall[h].timeout # NoTimeout) =>
         clock - lcall[h].start_time <= lcall[h].timeout]_vars

\* C22: every acquisition stores a fresh token: the token stored by an
\* acquisition that follows a release is not the token that release compared
\* and deleted, also when the same QueueBlocker acquires again.
C22_FreshTokenPerAcquisition ==
  [][(lresult.call.released /\ lockOwner = 0 /\ lockOwner' # 0) =>
       lockOwner' # lresult.owner]_vars

\* C23: a Redis error during acquire_lock or release_lock does not reach the
\* caller: both return False, no call on a QueueBlocker ends with the
\* RedisError, and after the failed call the QueueBlocker is not between an
\* acquire and a release; lock() whose acquisition failed raises its
\* TimeoutError.
C23_LockStoreErrorReturnsFalse ==
  lresult.call.store_error =>
    /\ lresult.raised # "RedisError"
    /\ lresult.op \in { "acquire_lock", "release_lock" } =>
          (~lresult.ok /\ lresult.raised = "")
    /\ (lresult.op = "lock" /\ ~lresult.call.acquired) =>
          lresult.raised = "TimeoutError"
    /\ ~Holding(lresult.owner)
    /\ lpc[lresult.owner] = "idle"

\* C23 witness: acquire_lock returned False because the SET of its second
\* attempt raised, with the reply lost after the record was written
C23_Witness ==
  /\ lresult.call.store_error
  /\ lresult.op = "acquire_lock" /\ ~lresult.ok
  /\ clock > lresult.call.start_time
  /\ lockOwner = lresult.owner

\* The length the generator counts for a batch: the URL and, for each id, the
\* id and a comma
RECURSIVE IdsLength(_)
IdsLength(batch) ==
  IF batch = << >> THEN 0
  ELSE Len(Head(batch)) + 1 + IdsLength(Tail(batch))

BatchLength(batch) == Len(client.url) + IdsLength(batch)

\* The id does not fit a URL even on its own
Overflows(coin_id) == BatchLength(<< coin_id >>) > client.MAX_URL_LENGTH

RECURSIVE Flatten(_)
Flatten(batches) ==
  IF batches = << >> THEN << >>
  ELSE Head(batches) \o Flatten(Tail(batches))

C25_ChunksComplete ==
  /\ gpc = "run" =>
       Flatten(yielded) \o current_chunk = SubSeq(ids, 1, pos - 1)
  /\ gpc = "done" => Flatten(yielded) = ids

\* C25 witness: an input with a repeated id ended in three batches
C25_Witness ==
  /\ gpc = "done"
  /\ Len(yielded) = 3
  /\ \E i, j \in 1..Len(ids) : i < j /\ ids[i] = ids[j]

\* The generator was given ["a","bb","ccc"] with max_length 10 and an empty
\* prefix, and is exhausted
Scenario26 ==
  /\ gpc = "done"
  /\ ids = << "a", "bb", "ccc" >>
  /\ client = [MAX_URL_LENGTH |-> 10, url |-> ""]

\* C26 as stated: ["a","bb","ccc"] with max_length 10 and an empty prefix
\* yields [["a","bb"],["ccc"]].
C26_ScenarioTwoBatches ==
  Scenario26 => yielded = << << "a", "bb" >>, << "ccc" >> >>

\* C26 amended: ["a","bb","ccc"] with max_length 10 and an empty prefix
\* yields the one batch [["a","bb","ccc"]] (2 + 3 + 4 = 9 <= 10); with
\* max_length 8 it yields [["a","bb"],["ccc"]].
C26_ScenarioOneBatch ==
  /\ Scenario26 => yielded = << << "a", "bb", "ccc" >> >>
  /\ (gpc = "done" /\ ids = << "a", "bb", "ccc" >>
        /\ client = [MAX_URL_LENGTH |-> 8, url |-> ""]) =>
       yielded = << << "a", "bb" >>, << "ccc" >> >>

\* C26 witness: the run of the scenario is over
C26_Witness ==
  /\ Scenario26
  /\ Len(yielded) = 1 /\ BatchLength(yielded[1]) = 9

\* C27: an empty input yields no batch; no batch is empty; an id that does
\* not fit a URL on its own is yielded, for each of its places in the input,
\* as a batch of that id alone, and is in no batch with another id.
C27_ChunkEdgeCases ==
  /\ (gpc = "done" /\ ids = << >>) => yielded = << >>
  /\ \A k \in 1..Len(yielded) :
       /\ yielded[k] # << >>
       /\ \A j \in 1..Len(yielded[k]) :
            Overflows(yielded[k][j]) => Len(yielded[k]) = 1
  /\ gpc = "done" =>
       \A i \in 1..Len(ids) :
         Overflows(ids[i]) =>
           Cardinality({ k \in 1..Len(yielded) : yielded[k] = << ids[i] >> })
             = Cardinality({ j \in 1..Len(ids) : ids[j] = ids[i] })

\* C27 witness: an id over the bound stood between two ids that fit, and
\* each of the three is a batch
C27_Witness ==
  /\ gpc = "done"
  /\ Len(ids) = 3 /\ Len(yielded) = 3
  /\ ~Overflows(ids[1]) /\ Overflows(ids[2]) /\ ~Overflows(ids[3])
  /\ ids[1] # ids[3]

\* The failure entries a report carries
ReportedFailures(r) ==
  IF "failed" \in DOMAIN r.data THEN r.data.failed ELSE << >>

\* The ids that came with a usd price in the chunks that did not fail
Merged == { id \in DOMAIN all_results : all_results[id] # "None" }

\* C28: when the fetch of one batch raised, the run went on with the batches
\* after it, and the final report has the merged results of the successful
\* batches, one failure entry {batch_index, ids, error} for the failed batch,
\* and received_count < requested_count.
C28_PartialFailureReported ==
  (/\ fpc = "done"
   /\ Len(failed_chunks) = 1
   /\ failed_chunks[1].error = "HTTPError") =>
    /\ chunk_no = Len(yielded)
    /\ freport.status = "success"
    /\ freport.data.received_count = Cardinality(Merged)
    /\ freport.data.received_count < freport.data.requested_count
    /\ Len(ReportedFailures(freport)) = 1
    /\ ReportedFailures(freport)[1] = failed_chunks[1]

\* C29: a denial of the rate limiter is not recorded as a failure of the
\* batch: it leaves get_prices as the TimeoutError of the limiter.
C29_DenialSurfaces ==
  \A k \in 1..Len(failed_chunks) : failed_chunks[k].error # "TimeoutError"

\* C30: get_prices raises for no failure of a batch, and when the service is
\* unknown, so that no limiter can be built, the operation ends with an
\* error and not with a result.
C30_MisconfigurationAborts ==
  /\ (price_list.ended /\ ServiceFound(db)) => price_list.raised = ""
  /\ (price_list.ended /\ ~ServiceFound(db)) => price_list.raised # ""
  /\ (fpc = "done" /\ ids # << >> /\ ~ServiceFound(db)) =>
       freport.status = "error"

\* C34: every batch but the last is maximal: with the first id of the batch
\* after it, prefix length + sum(len(id) + 1) would be over max_length.  The
\* same holds for the last batch yielded so far and the id the batch under
\* construction starts with.
C34_ChunksGreedy ==
  /\ \A k \in 1..(Len(yielded) - 1) :
       BatchLength(yielded[k]) + addition_length(yielded[k + 1][1])
         > client.MAX_URL_LENGTH
  /\ (gpc = "run" /\ yielded # << >> /\ current_chunk # << >>) =>
       BatchLength(yielded[Len(yielded)]) + addition_length(current_chunk[1])
         > client.MAX_URL_LENGTH

\* C34 witness: the generator has ended with two batches; the first one holds
\* several ids and fills the URL to its last character, and none of the ids
\* is over the bound on its own
C34_Witness ==
  /\ gpc = "done"
  /\ Len(yielded) = 2
  /\ Len(yielded[1]) >= 2
  /\ BatchLength(yielded[1]) = client.MAX_URL_LENGTH
  /\ \A k \in 1..Len(ids) : ~Overflows(ids[k])

\* C40: the batch count computed before the run is 0 for an empty list and
\* otherwise at least the number of batches generated: every index i that
\* get_prices reports with it satisfies i <= total_chunks.
C40_ProgressWithinTotal ==
  LET total_chunks == _calculate_safe_chunks_to_get_prices(client, ids)
  IN /\ (ids = << >>) => total_chunks = 0
     /\ chunk_no <= total_chunks

\* The make_request call of the step ended with the exception named
Failed(error) ==
  /\ Len(failed_chunks') = Len(failed_chunks) + 1
  /\ failed_chunks'[Len(failed_chunks')].error = error

\* C31: a call of session.request is made only in a make_request call whose
\* admission was granted (one request, one granted admission, in the same
\* call); a make_request call that ends with the TimeoutError of the limiter
\* makes no request.  So the requests never outnumber the granted admissions.
C31_RequestNeedsAdmission ==
  [][/\ (sent' # sent) => (sent' = sent + 1 /\ total' = total + 1)
     /\ Failed("TimeoutError") => (sent' = sent /\ total' = total)
     /\ sent' <= total']_vars

\* C31 witness: two batches were admitted and requested, a third was denied
\* by the limiter and not requested
C31_Witness ==
  /\ sent = 2
  /\ total = 2
  /\ chunk_no = 3
  /\ Len(failed_chunks) = 1
  /\ failed_chunks[1] = [chunk |-> 3, ids |-> yielded[3],
                         error |-> "TimeoutError"]

\* C38: every make_request call whose admission was granted appends exactly
\* one entry to the request log, whether session.request returned a response
\* or raised; when it raised, the entry has was_successful = false and the
\* error of the transport is what leaves make_request.
C38_OneLogEntryPerRequest ==
  [][(sent' # sent) =>
       /\ Len(logs') = Len(logs) + 1
       /\ Len(failed_chunks') > Len(failed_chunks) =>
            ~logs'[Len(logs')].was_successful
       /\ ~Failed("UnboundLocalError")]_vars

\* The process h is in the section guarded by lock()
InSection(h) == lpc[h] = "section"

\* C39: as long as no process outlives its lease inside the section guarded
\* by lock(), at most one process is in the section; when release_lock has
\* released the holder's record the key is absent, and an attempt made while
\* the key is absent succeeds, whichever process makes it (an attempt fails
\* only against a record that exists).
C39_SectionExclusiveWithinLease ==
  /\ [](\A a, b \in Procs :
          (InSection(a) /\ InSection(b) /\ a # b) =>
            (lcall[a].expired \/ lcall[b].expired))
  /\ []((lresult.call.released /\ ~lresult.call.expired) =>
          (lockOwner = 0 /\ lockExpiry = -1))
  /\ [][\A h \in Procs :
          (lpc[h] # "peek" /\ lpc'[h] = "peek") => lockOwner # 0]_vars
  /\ [][\A h \in Procs :
          (lockOwner = 0 /\ lpc[h] \in { "idle", "sleep" }
             /\ lpc'[h] \notin { "idle", "sleep" } /\ lcall'[h].releases = 0
             /\ lresult'.op # "release_lock") =>
            (lcall'[h].acquired /\ lockOwner' = h)]_vars

\* C39 witness: lock() has just been left by a holder within its lease, its
\* release deleted the record, and another process that found the lock taken
\* is waiting for its next attempt
C39_Witness ==
  /\ lresult.op = "lock" /\ lresult.call.released
  /\ lresult.call.entered /\ ~lresult.call.expired
  /\ lockOwner = 0
  /\ \E b \in Procs : b # lresult.owner /\ lpc[b] = "sleep"

\* Process p is inside a call of acquire
InAcquire(p) == pc[p] \in { "rollover", "persist", "read", "grant", "sleep" }

\* C36: acquire with a timeout terminates.  A denied attempt that ends the
\* call ends it in the step of the denial, without a sleep; a sleep is
\* positive, at most 1 s, and begins before the deadline, so a call sleeps at
\* most timeout times (in whole seconds) and at most one attempt begins at or
\* after the deadline; and every call of acquire returns.
C36_AcquireTerminates ==
  /\ [][\A p \in Procs :
          /\ (pc[p] = "read" /\ pc'[p] = "sleep") =>
               /\ timer'[p].timeout # NoTimeout
               /\ timer'[p].wake - clock > 0
               /\ timer'[p].wake - clock <= 1
               /\ clock < timer'[p].start_time + timer'[p].timeout
               /\ timer'[p].sleeps = timer[p].sleeps + 1
          /\ (last'.proc = p /\ ~last'.ok /\ ~last'.raised) =>
               /\ pc[p] = "read" /\ pc'[p] = "idle"
               /\ last'.end = clock]_vars
  /\ [](\A p \in Procs :
          timer[p].timeout # NoTimeout => timer[p].sleeps <= timer[p].timeout)
  /\ \A p \in Procs : InAcquire(p) ~> ~InAcquire(p)

\* C36 witness: a call with a timeout of 2 has returned false after a sleep:
\* its second attempt was denied with a reported wait longer than the time
\* that remained
C36_Witness ==
  /\ last.proc # 0 /\ ~last.ok /\ ~last.raised
  /\ last.timeout = 2
  /\ last.sleeps >= 1
  /\ last.wait > last.timeout - (last.end - last.start)

\* The reset time process p holds for window w is present and the next
\* boundary after it is not after t
DueAt(p, w, t) ==
  /\ config[p].reset_times[w] # None
  /\ _get_next_reset(w, fromisoformat(config[p].reset_times[w])) <= t

\* C35: the rollover check deletes the counter of a window exactly when the
\* reset time the process holds for it is present and the next boundary after
\* it is <= now, and sets that reset time to now; when the check is through,
\* no window is left due for that now; the configuration is written to the
\* cache once, at the end of a check that reset some window, and by no check
\* that reset none; a window whose reset time is absent stays without one, is
\* never deleted by the check, and its counter goes back to 0 only when its
\* TTL runs out.
C35_RolloverCheck ==
  /\ [][\A p \in Procs :
          /\ (pc[p] = "rollover" /\ (pc'[p] # "rollover" \/ idx'[p] # idx[p])) =>
               LET w == Periods[idx[p]]
               IN /\ DueAt(p, w, now[p])
                  /\ deleted' = w /\ counts'[w] = 0
                  /\ config'[p].reset_times[w] = isoformat(now[p])
                  /\ \A v \in PeriodSet \ {w} :
                       /\ config'[p].reset_times[v] = config[p].reset_times[v]
                       /\ counts'[v] = counts[v]
                  /\ \A j \in 1..Len(Periods) :
                       (j < idx[p] \/ (j > idx[p] /\ j < idx'[p])
                          \/ (j > idx[p] /\ pc'[p] = "persist")) =>
                         ~DueAt(p, Periods[j], now[p])
                  /\ updated'[p]
                  /\ cache' = cache
                  /\ pc'[p] \in { "rollover", "persist" }
          /\ (pc[p] # "persist" /\ pc'[p] = "persist") => pc[p] = "rollover"
          /\ (pc[p] = "persist" /\ pc'[p] # "persist") =>
               /\ updated[p]
               /\ cache' = << json_dumps(config[p]) >>
               /\ pc'[p] \in { "read", "grant" }
          /\ (pc[p] \in { "idle", "sleep" } /\ pc'[p] \in { "read", "grant" }) =>
               /\ \A w \in PeriodSet : ~DueAt(p, w, now'[p])
               /\ cache' = cache /\ deleted' = ""]_vars
  /\ [][\A w \in PeriodSet :
          /\ deleted' = w =>
               \E p \in Procs : pc[p] = "rollover" /\ Periods[idx[p]] = w
          /\ (db.last_reset[w] = NoDate /\ counts[w] > 0 /\ counts'[w] = 0) =>
               /\ clock' > clock
               /\ expires[w] # -1 /\ expires[w] <= clock']_vars
  /\ [](\A w \in PeriodSet :
          db.last_reset[w] = NoDate =>
            /\ lastDel[w] = -1
            /\ \A p \in Procs :
                 pc[p] # "new" => config[p].reset_times[w] = None)

\* C35 witness: a rollover check has just deleted the counter of a window,
\* while a window without a reset time holds a count over a boundary of its
\* own that has passed since its first grant
C35_Witness ==
  /\ deleted # ""
  /\ \E w \in PeriodSet :
       /\ db.last_reset[w] = NoDate
       /\ counts[w] > 0
       /\ streak[w].n > 0
       /\ _get_next_reset(w, streak[w].start) <= clock

\* C32: the sync is advisory.  Whatever the sync of a granted admission does
\* (no sync, a failed read of the counters, a thread that cannot be started,
\* a thread started), the admission returns true without an exception, with
\* the counter of every enforced window and the lifetime total one higher; a
\* sync that failed starts no thread and leaves the database alone; and a
\* _save_to_db thread, failing or not, returns nothing to any admission and
\* leaves the counter store and every process where they are.
C32_SyncAdvisory ==
  [][/\ \A p \in Procs :
          (pc[p] = "grant" /\ pc'[p] # "grant") =>
            /\ last'.proc = p /\ last'.ok /\ ~last'.raised
            /\ sync_event' \in SyncOutcomes
            /\ total' = total + 1
            /\ \A w \in PeriodSet :
                 counts'[w] = IF config[p].limits[w] > 0 THEN counts[w] + 1
                              ELSE counts[w]
            /\ counters' = counters
            /\ sync_event' # "started" => saving' = saving
     /\ Len(saving') < Len(saving) =>
          /\ last' = NoCall
          /\ pc' = pc /\ results' = results
          /\ counts' = counts /\ total' = total /\ expires' = expires]_vars

\* C32 witness: a second admission has returned true although its sync
\* failed; no thread is left to run and the database is as it was
C32_Witness ==
  /\ last.proc # 0 /\ last.ok
  /\ sync_event \in { "read_failed", "start_failed" }
  /\ total >= 2
  /\ saving = << >> /\ synced = NoSync /\ counters = NoCounters

C33_ThreadsSerialize ==
  /\ Cardinality({ p \in Procs : HoldsLock(p) }) <= 1
  /\ \A w \in PeriodSet : db.limits[w] > 0 => counts[w] <= db.limits[w]

====
